---- MODULE Spec2Model ----
(***************************************************************************)
(* Model of the shemcp policy-and-execution pipeline: the shell_exec       *)
(* handler (src/handlers/shell-exec.ts), the policy library (lib/policy),  *)
(* the worktree registry (lib/worktree) and the command utilities          *)
(* (lib/command).                                                          *)
(*                                                                         *)
(* Strings are sequences of characters.  A character is a one-letter       *)
(* string, or a whole word ("git", "push", "FOO") standing for a run of    *)
(* ordinary letters that none of the parsers below looks inside.           *)
(* Paths are sequences of segment names below the filesystem root.         *)
(***************************************************************************)
EXTENDS Integers, Sequences, FiniteSets, TLC

None == "none"

(* ---------------------------------------------------------------------- *)
(* String helpers (String.prototype.includes / startsWith / trim / join)  *)
(* ---------------------------------------------------------------------- *)
IsSpace(ch) == ch \in {" ", "\t"}

Includes(s, ch) == \E i \in 1..Len(s) : s[i] = ch

StartsWithCh(s, ch) == Len(s) > 0 /\ s[1] = ch


RECURSIVE TrimLeft(_)
TrimLeft(s) == IF s # <<>> /\ IsSpace(s[1]) THEN TrimLeft(Tail(s)) ELSE s

RECURSIVE TrimRight(_)
TrimRight(s) ==
  IF s # <<>> /\ IsSpace(s[Len(s)]) THEN TrimRight(SubSeq(s, 1, Len(s) - 1)) ELSE s


RECURSIVE JoinSp(_)
JoinSp(toks) ==
  IF toks = <<>> THEN <<>>
  ELSE IF Len(toks) = 1 THEN toks[1]
  ELSE toks[1] \o <<" ">> \o JoinSp(Tail(toks))

(* ---------------------------------------------------------------------- *)
(* lib/command: stripEnvPrefix, buildCmdLine, parseShellCommand,          *)
(* parseShellWrapper                                                      *)
(* ---------------------------------------------------------------------- *)
BASH == <<"bash">>


RECURSIVE EnvScan(_, _)
EnvScan(args, cmdIndex) ==
  IF cmdIndex <= Len(args) /\ args[cmdIndex] # <<>> /\ (Includes(args[cmdIndex], "=") /\ ~StartsWithCh(args[cmdIndex], "-"))
  THEN EnvScan(args, cmdIndex + 1)
  ELSE cmdIndex

StripEnvPrefix(cmd, args) ==
  IF (Includes(cmd, "=") /\ ~StartsWithCh(cmd, "-"))
  THEN LET cmdIndex == EnvScan(args, 1)
       IN IF cmdIndex > Len(args) \/ args[cmdIndex] = <<>>
          THEN [args |-> args,
                cmd |-> cmd,
                ok |-> FALSE,
                error |-> "No command found after environment variable assignments",
                envVars |-> <<>>]
          ELSE [args |-> SubSeq(args, cmdIndex + 1, Len(args)),
                cmd |-> args[cmdIndex],
                ok |-> TRUE,
                error |-> None,
                envVars |-> <<cmd>> \o SubSeq(args, 1, cmdIndex - 1)]
  ELSE [args |-> args, cmd |-> cmd, ok |-> TRUE, error |-> None, envVars |-> <<>>]

buildCmdLine(cmd, args) == TrimRight(TrimLeft(JoinSp(<<cmd>> \o args)))

(* One iteration of the tokenizer loop per character; st is the loop state *)
(* (tokens, current, inSingleQuote, inDoubleQuote, escaped).               *)
TokStep(st, char) ==
  IF st.escaped THEN [st EXCEPT !.current = @ \o <<char>>, !.escaped = FALSE]
  ELSE IF char = "\\" THEN [st EXCEPT !.escaped = TRUE]
  ELSE IF char = "'" /\ ~st.inDoubleQuote THEN [st EXCEPT !.inSingleQuote = ~@]
  ELSE IF char = "\"" /\ ~st.inSingleQuote THEN [st EXCEPT !.inDoubleQuote = ~@]
  ELSE IF char = " " /\ ~st.inSingleQuote /\ ~st.inDoubleQuote
       THEN IF Len(st.current) > 0
            THEN [st EXCEPT !.tokens = @ \o <<st.current>>, !.current = <<>>]
            ELSE st
  ELSE [st EXCEPT !.current = @ \o <<char>>]

RECURSIVE TokLoop(_, _, _)
TokLoop(cmdStr, i, st) ==
  IF i > Len(cmdStr)
  THEN IF Len(st.current) > 0 THEN st.tokens \o <<st.current>> ELSE st.tokens
  ELSE TokLoop(cmdStr, i + 1, TokStep(st, cmdStr[i]))

parseShellCommand(cmdStr) ==
  TokLoop(cmdStr, 1, [escaped |-> FALSE,
                      current |-> <<>>,
                      inDoubleQuote |-> FALSE,
                      inSingleQuote |-> FALSE,
                      tokens |-> <<>>])

NotWrapper(cmd) ==
  [ok |-> TRUE, error |-> None, isWrapper |-> FALSE, executableToCheck |-> cmd,
   shouldUseLogin |-> FALSE, commandString |-> <<>>, argsAfterCommand |-> 0,
   flagsBeforeCommand |-> <<>>, shell |-> None]

WrapperError(msg) ==
  [ok |-> FALSE, error |-> msg, isWrapper |-> FALSE, executableToCheck |-> <<>>,
   shouldUseLogin |-> FALSE, commandString |-> <<>>, argsAfterCommand |-> 0,
   flagsBeforeCommand |-> <<>>, shell |-> None]

(* arg.slice(1).split('').filter(f => f !== 'c' && f !== 'l').map('-' + f) *)
RECURSIVE OtherFlags(_)
OtherFlags(chars) ==
  IF chars = <<>> THEN <<>>
  ELSE IF chars[1] \in {"c", "l"} THEN OtherFlags(Tail(chars))
  ELSE <<(<<"-", chars[1]>>)>> \o OtherFlags(Tail(chars))

RECURSIVE WrapperLoop(_, _, _, _, _)
WrapperLoop(cmd, args, i, login, flags) ==
  IF i > Len(args) THEN WrapperError("missing -c command string")
  ELSE LET arg == args[i] IN
    IF arg = <<>> THEN WrapperLoop(cmd, args, i + 1, login, flags)
    ELSE IF StartsWithCh(arg, "-")
    THEN LET short == ~(Len(arg) > 1 /\ arg[1] = "-" /\ arg[2] = "-")
             login2 == login \/ (short /\ Includes(arg, "l"))
         IN IF Includes(arg, "c") /\ short
            THEN IF i + 1 > Len(args)
                 THEN WrapperError("missing command string after -c")
                 ELSE LET cmdStr == args[i + 1]
                          tokens == parseShellCommand(cmdStr)
                      IN IF Len(tokens) = 0 \/ tokens[1] = <<>>
                         THEN WrapperError("empty command string")
                         ELSE [ok |-> TRUE, error |-> None, isWrapper |-> TRUE,
                               executableToCheck |-> tokens[1],
                               shouldUseLogin |-> login2,
                               commandString |-> cmdStr,
                               argsAfterCommand |-> i + 1,
                               flagsBeforeCommand |-> flags \o OtherFlags(Tail(arg)),
                               shell |-> cmd[1]]
            ELSE IF arg # <<"-", "l">>
                 THEN IF i + 1 <= Len(args) /\ args[i + 1] # <<>>
                         /\ ~StartsWithCh(args[i + 1], "-")
                      THEN WrapperLoop(cmd, args, i + 2, login2,
                                       flags \o <<arg, args[i + 1]>>)
                      ELSE WrapperLoop(cmd, args, i + 1, login2, flags \o <<arg>>)
                 ELSE WrapperLoop(cmd, args, i + 1, login2, flags)
    ELSE WrapperLoop(cmd, args, i + 1, login, flags)

parseShellWrapper(cmd, args) ==
  IF (cmd # BASH /\ cmd # <<"sh">>) \/ Len(args) = 0 THEN NotWrapper(cmd)
  ELSE IF args[1] = <<>> \/ ~StartsWithCh(args[1], "-") THEN NotWrapper(cmd)
  ELSE WrapperLoop(cmd, args, 1, FALSE, <<>>)

(* key / value of a KEY=value token, split at the first "="                *)
RECURSIVE EqIndex(_, _)
EqIndex(t, i) == IF i > Len(t) \/ t[i] = "=" THEN i ELSE EqIndex(t, i + 1)

EnvKey(t) == SubSeq(t, 1, EqIndex(t, 1) - 1)

(* later assignments of the same key win                                   *)
parseEnvVars(envVars) ==
  [k \in {EnvKey(envVars[i]) : i \in 1..Len(envVars)} |->
     LET last == CHOOSE i \in 1..Len(envVars) :
                   /\ EnvKey(envVars[i]) = k
                   /\ \A j \in 1..Len(envVars) : EnvKey(envVars[j]) = k => j <= i
     IN SubSeq(envVars[last], EqIndex(envVars[last], 1) + 1, Len(envVars[last]))]

(* ---------------------------------------------------------------------- *)
(* lib/policy: regular expressions, checkCommandPolicy, filteredEnv        *)
(* ---------------------------------------------------------------------- *)

(* makeRegex compiles every source with the "i" flag: letters compare      *)
(* case-insensitively.                                                     *)
Lower(ch) == CASE ch = "GIT" -> "git" [] ch = "PUSH" -> "push" [] OTHER -> ch

\* the source "^word(\\s|$)": the line starts with word, then whitespace or the end
MatchWordPrefix(word, s) ==
  /\ Len(s) >= 1
  /\ Lower(s[1]) = word
  /\ (Len(s) = 1 \/ IsSpace(s[2]))

\* RX_PUSH_MAIN: git, whitespace, push, then main or master as a whole word
\* preceded by whitespace and followed by whitespace or the end
MatchPushMain(s) ==
  /\ Len(s) >= 1
  /\ Lower(s[1]) = "git"
  /\ \E k \in 3..Len(s) :
       /\ \A m \in 2..(k - 1) : IsSpace(s[m])
       /\ Lower(s[k]) = "push"
       /\ k + 1 <= Len(s)
       /\ IsSpace(s[k + 1])
       /\ \E j \in (k + 2)..Len(s) :
            /\ IsSpace(s[j - 1])
            /\ Lower(s[j]) \in {"main", "master"}
            /\ (j = Len(s) \/ IsSpace(s[j + 1]))

\* RX_BARE_PUSH: git, whitespace, push, optional trailing whitespace
MatchBarePush(s) ==
  /\ Len(s) >= 1
  /\ Lower(s[1]) = "git"
  /\ \E k \in 3..Len(s) :
       /\ \A m \in 2..(k - 1) : IsSpace(s[m])
       /\ Lower(s[k]) = "push"
       /\ \A m \in (k + 1)..Len(s) : IsSpace(s[m])

(* an unanchored literal: matches anywhere in the line *)

\* the source "^bash\\s+-lc\\s+": bash, whitespace, the flag cluster -lc, whitespace
MatchBashLc(s) ==
  /\ Len(s) >= 1
  /\ Lower(s[1]) = "bash"
  /\ \E k \in 3..Len(s) :
       /\ \A m \in 2..(k - 1) : IsSpace(s[m])
       /\ k + 3 <= Len(s)
       /\ s[k] = "-" /\ Lower(s[k + 1]) = "l" /\ Lower(s[k + 2]) = "c"
       /\ IsSpace(s[k + 3])

RX_PUSH_MAIN == "^git\\s+push(\\s+.*)?\\s+(origin\\s+)?(main|master)(\\s+.*)?$"
RX_BARE_PUSH == "^git\\s+push\\s*$"

(* RegExp.prototype.test for the sources above (no "g" flag: stateless)    *)
RegexTest(source, s) ==
  CASE source = "^git(\\s|$)" -> MatchWordPrefix("git", s)
    [] source = "^echo(\\s|$)" -> MatchWordPrefix("echo", s)
    [] source = RX_PUSH_MAIN -> MatchPushMain(s)
    [] source = RX_BARE_PUSH -> MatchBarePush(s)
    [] source = "^bash\\s+-lc\\s+" -> MatchBashLc(s)
    [] source = "git" -> (\E i \in 1..Len(s) : Lower(s[i]) = "git")
    [] source = "main" -> (\E i \in 1..Len(s) : Lower(s[i]) = "main")
    [] OTHER -> FALSE

(* index of the first rule of the list that matches, 0 if none             *)
RECURSIVE FirstMatch(_, _, _)
FirstMatch(rules, full, i) ==
  IF i > Len(rules) THEN 0
  ELSE IF RegexTest(rules[i], full) THEN i
  ELSE FirstMatch(rules, full, i + 1)

(* variant: allow rules are consulted before the deny rules                *)
checkCommandPolicyAllowFirst(full, pol) ==
  LET d == FirstMatch(pol.deny, full, 1)
      a == FirstMatch(pol.allow, full, 1)
  IN IF a # 0
     THEN [allowed |-> TRUE, reason |-> "Command matches allow rule",
           matchedRule |-> pol.allow[a], ruleType |-> "allow"]
     ELSE IF d # 0
     THEN [allowed |-> FALSE, reason |-> "Command matches deny rule",
           matchedRule |-> pol.deny[d], ruleType |-> "deny"]
     ELSE [allowed |-> FALSE, reason |-> "Command does not match any allow rule",
           matchedRule |-> None, ruleType |-> None]

(* variant: a line that matches no rule is let through                     *)
checkCommandPolicyDefaultAllow(full, pol) ==
  LET d == FirstMatch(pol.deny, full, 1)
      a == FirstMatch(pol.allow, full, 1)
  IN IF d # 0
     THEN [allowed |-> FALSE, reason |-> "Command matches deny rule",
           matchedRule |-> pol.deny[d], ruleType |-> "deny"]
     ELSE IF a # 0
     THEN [allowed |-> TRUE, reason |-> "Command matches allow rule",
           matchedRule |-> pol.allow[a], ruleType |-> "allow"]
     ELSE [allowed |-> TRUE, reason |-> "Command does not match any allow rule",
           matchedRule |-> None, ruleType |-> None]

checkCommandPolicy(full, pol) ==
  LET d == FirstMatch(pol.deny, full, 1)
      a == FirstMatch(pol.allow, full, 1)
  IN IF d # 0
     THEN [allowed |-> FALSE, reason |-> "Command matches deny rule",
           matchedRule |-> pol.deny[d], ruleType |-> "deny"]
     ELSE IF a # 0
     THEN [allowed |-> TRUE, reason |-> "Command matches allow rule",
           matchedRule |-> pol.allow[a], ruleType |-> "allow"]
     ELSE [allowed |-> FALSE, reason |-> "Command does not match any allow rule",
           matchedRule |-> None, ruleType |-> None]

(* process.env of the server: name -> value                                *)
ProcessEnv ==
  (<<"PATH">> :> <<"/bin">>) @@ (<<"HOME">> :> <<"/h">>) @@ (<<"SECRET">> :> <<"s3cr3t">>)

RECURSIVE SeqRange(_)
SeqRange(sq) == IF sq = <<>> THEN {} ELSE {sq[1]} \cup SeqRange(Tail(sq))

filteredEnv(pol) ==
  [k \in (SeqRange(pol.envWhitelist) \cap DOMAIN ProcessEnv) |-> ProcessEnv[k]]

(* ---------------------------------------------------------------------- *)
(* Paths (node:path resolve / basename) and the filesystem the server      *)
(* runs on.  A path is the sequence of its segment names; a name is a      *)
(* string, so that basename.startsWith is a prefix test on characters.     *)
(* ---------------------------------------------------------------------- *)
DOTDOT == <<".", ".">>

SandboxRoot == <<<<"u">>, <<"proj">>>>

Parent(p) == IF p = <<>> THEN <<>> ELSE SubSeq(p, 1, Len(p) - 1)

Basename(p) == IF p = <<>> THEN <<>> ELSE p[Len(p)]

StartsWith(s, prefix) ==
  Len(s) >= Len(prefix) /\ SubSeq(s, 1, Len(prefix)) = prefix

(* path.resolve(base, rel): lexical normalisation of "." and ".."          *)
RECURSIVE resolve(_, _)
resolve(base, segs) ==
  IF segs = <<>> THEN base
  ELSE IF segs[1] = <<".">> \/ segs[1] = <<>> THEN resolve(base, Tail(segs))
  ELSE IF segs[1] = DOTDOT THEN resolve(Parent(base), Tail(segs))
  ELSE resolve(base \o <<segs[1]>>, Tail(segs))

(* p === root || p.startsWith(root + "/"), on normalised paths             *)
WithinLexical(p, root) == StartsWith(p, root)

(* p === wt || p.startsWith(wt + "/"): for wt = "/" the prefix is "//"     *)

(* Directories that exist (after symlink resolution), symbolic links and   *)
(* directories without read/execute permission.                            *)
Dirs ==
  { <<>>, <<<<"u">>>>, SandboxRoot, SandboxRoot \o <<<<"src">>>>, SandboxRoot \o <<<<"priv">>>>,
    <<<<"u">>, <<"other">>>>, <<<<"u">>, <<"proj", "-f">>>>, <<<<"u">>, <<"proj", "-f">>, <<"src">>>>, <<<<"u">>, <<"proj", "2">>>> }




(* fs.realpathSync: resolve every symlink on the way; fails on a missing   *)
(* component (ENOENT)                                                      *)
RECURSIVE RealFrom(_, _)
RealFrom(acc, rest) ==
  IF rest = <<>> THEN [ok |-> TRUE, path |-> acc]
  ELSE LET nxt == acc \o <<rest[1]>>
       IN IF nxt \in ({ SandboxRoot \o <<<<"out">>>>, <<<<"u">>, <<"proj", "-f">>, <<"esc">>>> }) THEN RealFrom(<<<<"u">>, <<"other">>>>, Tail(rest))
          ELSE IF nxt \in Dirs THEN RealFrom(nxt, Tail(rest))
          ELSE [ok |-> FALSE, path |-> <<>>]

realpathSync(p) == RealFrom(<<>>, p)

(* fs.accessSync(p, R_OK | X_OK) does not throw                            *)

(* ---------------------------------------------------------------------- *)
(* lib/policy: validatePathAccessibility                                   *)
(* ---------------------------------------------------------------------- *)
NoError == <<>>

(* variant: the boundary is not re-checked on real paths                   *)
validatePathAccessibilityNoRealpath(cwd, boundaryRoot) ==
  IF ~(realpathSync(cwd).ok /\ realpathSync(cwd).path \notin ({ SandboxRoot \o <<<<"priv">>>> })) THEN <<"cwd not accessible: ", cwd>> ELSE NoError

validatePathAccessibility(cwd, boundaryRoot) ==
  IF ~(realpathSync(cwd).ok /\ realpathSync(cwd).path \notin ({ SandboxRoot \o <<<<"priv">>>> })) THEN <<"cwd not accessible: ", cwd>>
  ELSE LET realCwd == realpathSync(cwd)
           realRoot == realpathSync(boundaryRoot)
       IN IF ~realCwd.ok \/ ~realRoot.ok THEN <<"cwd not accessible: ", cwd>>
          ELSE IF ~StartsWith(realCwd.path, realRoot.path)
          THEN <<"cwd not allowed: ", cwd, " (resolved outside sandbox root)">>
          ELSE NoError

(* ---------------------------------------------------------------------- *)
(* lib/worktree                                                            *)
(* ---------------------------------------------------------------------- *)
CACHE_TTL_MS == 60000

NoCache == [valid |-> FALSE, worktrees |-> <<>>, timestamp |-> 0, sandboxRoot |-> <<>>]

(* One line of `git worktree list --porcelain`: tag is "worktree", "HEAD", *)
(* "branch" or "" (blank / other), val the text after the tag.             *)




RECURSIVE ParseLines(_, _, _)
ParseLines(lines, current, worktrees) ==
  IF lines = <<>>
  THEN IF (current.hasPath /\ current.path # <<>> /\ current.head # <<>>) THEN worktrees \o <<([path |-> current.path, head |-> current.head, branch |-> current.branch])>> ELSE worktrees
  ELSE LET line == lines[1] IN
    IF line.tag = "worktree"
    THEN ParseLines(Tail(lines),
                    [path |-> line.val, hasPath |-> TRUE, head |-> <<>>, branch |-> <<>>],
                    IF (current.hasPath /\ current.path # <<>> /\ current.head # <<>>) THEN worktrees \o <<([path |-> current.path, head |-> current.head, branch |-> current.branch])>> ELSE worktrees)
    ELSE IF line.tag = "HEAD"
    THEN ParseLines(Tail(lines), [current EXCEPT !.head = line.val], worktrees)
    ELSE IF line.tag = "branch"
    THEN ParseLines(Tail(lines), [current EXCEPT !.branch = line.val], worktrees)
    ELSE ParseLines(Tail(lines), current, worktrees)

parseWorktreeList(output) == ParseLines(output, [path |-> <<>>, hasPath |-> FALSE, head |-> <<>>, branch |-> <<>>], <<>>)

(* git is the outcome of running `git worktree list --porcelain` in the    *)
(* sandbox root: it failed (or timed out), or printed the lines out.       *)
fetchWorktreeList(sandboxRoot, git) ==
  IF git.failed THEN <<>> ELSE parseWorktreeList(git.out)

(* variant: a cached list never expires                                   *)
getWorktreesNoExpiry(sandboxRoot, cache, nowMs, git) ==
  IF cache.valid /\ cache.sandboxRoot = sandboxRoot
  THEN [worktrees |-> cache.worktrees, cache |-> cache, invoked |-> FALSE]
  ELSE LET worktrees == fetchWorktreeList(sandboxRoot, git)
       IN [worktrees |-> worktrees,
           cache |-> [valid |-> TRUE, worktrees |-> worktrees, timestamp |-> nowMs,
                      sandboxRoot |-> sandboxRoot],
           invoked |-> TRUE]

getWorktrees(sandboxRoot, cache, nowMs, git) ==
  IF cache.valid /\ cache.sandboxRoot = sandboxRoot
     /\ nowMs - cache.timestamp < CACHE_TTL_MS
  THEN [worktrees |-> cache.worktrees, cache |-> cache, invoked |-> FALSE]
  ELSE LET worktrees == fetchWorktreeList(sandboxRoot, git)
       IN [worktrees |-> worktrees,
           cache |-> [valid |-> TRUE, worktrees |-> worktrees, timestamp |-> nowMs,
                      sandboxRoot |-> sandboxRoot],
           invoked |-> TRUE]

matchesWorktreePattern(requestedPath, sandboxRoot) ==
  /\ Parent(sandboxRoot) = Parent(requestedPath)
  /\ StartsWith(Basename(requestedPath), Basename(sandboxRoot))

(* the walk up from the requested path to a directory of worktree shape    *)
RECURSIVE FindPatternRoot(_, _)
FindPatternRoot(checkPath, normalizedRoot) ==
  IF checkPath = normalizedRoot THEN [root |-> <<>>, found |-> FALSE]
  ELSE IF matchesWorktreePattern(checkPath, normalizedRoot)
  THEN [root |-> checkPath, found |-> TRUE]
  ELSE IF Parent(checkPath) = checkPath THEN [root |-> <<>>, found |-> FALSE]
  ELSE FindPatternRoot(Parent(checkPath), normalizedRoot)

RECURSIVE FirstContaining(_, _, _)
FirstContaining(worktrees, normalizedPath, i) ==
  IF i > Len(worktrees) THEN [root |-> <<>>, found |-> FALSE]
  ELSE IF (normalizedPath = worktrees[i].path \/ (worktrees[i].path # <<>> /\ StartsWith(normalizedPath, worktrees[i].path)))
  THEN [root |-> worktrees[i].path, found |-> TRUE]
  ELSE FirstContaining(worktrees, normalizedPath, i + 1)

validateWorktreePath(requestedPath, sandboxRoot, cache, nowMs, git) ==
  IF ~FindPatternRoot(requestedPath, sandboxRoot).found
  THEN [root |-> <<>>, cache |-> cache, invoked |-> FALSE, found |-> FALSE]
  ELSE LET got == getWorktrees(sandboxRoot, cache, nowMs, git)
           hit == FirstContaining(got.worktrees, requestedPath, 1)
       IN [root |-> hit.root,
           cache |-> got.cache,
           invoked |-> got.invoked,
           found |-> hit.found]

isWithinAllowedWorktrees(path, allowedWorktrees) ==
  \E wt \in allowedWorktrees : (path = wt \/ (wt # <<>> /\ StartsWith(path, wt)))

(* ---------------------------------------------------------------------- *)
(* lib/policy: ensureCwd, getEffectiveLimits                               *)
(* ---------------------------------------------------------------------- *)
CwdResult(message, allowedWorktrees, cache, invoked, inserted) ==
  [ok |-> message = NoError,
   cache |-> cache,
   allowedWorktrees |-> allowedWorktrees,
   message |-> message,
   inserted |-> inserted,
   gitInvoked |-> invoked]

NotInserted == [root |-> <<>>, found |-> FALSE]

(* variant: a newly verified worktree replaces the allowlist              *)
ensureCwdReplacesAllowlist(cwd, pol, cache, nowMs, git) ==
  LET normalizedCwd == resolve(cwd, <<>>)
      normalizedRoot == resolve(pol.rootDirectory, <<>>)
  IN IF WithinLexical(normalizedCwd, normalizedRoot)
     THEN CwdResult(validatePathAccessibility(cwd, normalizedRoot),
                    pol.allowedWorktrees, cache, FALSE, NotInserted)
     ELSE IF isWithinAllowedWorktrees(normalizedCwd, pol.allowedWorktrees)
     THEN CwdResult(validatePathAccessibility(cwd, normalizedRoot),
                    pol.allowedWorktrees, cache, FALSE, NotInserted)
     ELSE IF pol.worktreeDetectionEnabled
     THEN LET v == validateWorktreePath(normalizedCwd, normalizedRoot, cache, nowMs, git)
          IN IF v.found
             THEN CwdResult(validatePathAccessibility(cwd, v.root),
                            {v.root}, v.cache, v.invoked,
                            [root |-> v.root, found |-> TRUE])
             ELSE CwdResult(<<"cwd not allowed: ", cwd, " (must be within ",
                              pol.rootDirectory, ")">>,
                            pol.allowedWorktrees, v.cache, v.invoked, NotInserted)
     ELSE CwdResult(<<"cwd not allowed: ", cwd, " (must be within ",
                      pol.rootDirectory, ")">>,
                    pol.allowedWorktrees, cache, FALSE, NotInserted)

(* variant: the requested directory, not the verified worktree root, is   *)
(* put on the allowlist                                                    *)
ensureCwdInsertsRequested(cwd, pol, cache, nowMs, git) ==
  LET normalizedCwd == resolve(cwd, <<>>)
      normalizedRoot == resolve(pol.rootDirectory, <<>>)
  IN IF WithinLexical(normalizedCwd, normalizedRoot)
     THEN CwdResult(validatePathAccessibility(cwd, normalizedRoot),
                    pol.allowedWorktrees, cache, FALSE, NotInserted)
     ELSE IF isWithinAllowedWorktrees(normalizedCwd, pol.allowedWorktrees)
     THEN CwdResult(validatePathAccessibility(cwd, normalizedRoot),
                    pol.allowedWorktrees, cache, FALSE, NotInserted)
     ELSE IF pol.worktreeDetectionEnabled
     THEN LET v == validateWorktreePath(normalizedCwd, normalizedRoot, cache, nowMs, git)
          IN IF v.found
             THEN CwdResult(validatePathAccessibility(cwd, v.root),
                            pol.allowedWorktrees \cup {normalizedCwd}, v.cache, v.invoked,
                            [root |-> normalizedCwd, found |-> TRUE])
             ELSE CwdResult(<<"cwd not allowed: ", cwd, " (must be within ",
                              pol.rootDirectory, ")">>,
                            pol.allowedWorktrees, v.cache, v.invoked, NotInserted)
     ELSE CwdResult(<<"cwd not allowed: ", cwd, " (must be within ",
                      pol.rootDirectory, ")">>,
                    pol.allowedWorktrees, cache, FALSE, NotInserted)

(* variant: worktree detection runs whatever the flag says                 *)
ensureCwdAlwaysDetects(cwd, pol, cache, nowMs, git) ==
  LET normalizedCwd == resolve(cwd, <<>>)
      normalizedRoot == resolve(pol.rootDirectory, <<>>)
  IN IF WithinLexical(normalizedCwd, normalizedRoot)
     THEN CwdResult(validatePathAccessibility(cwd, normalizedRoot),
                    pol.allowedWorktrees, cache, FALSE, NotInserted)
     ELSE IF isWithinAllowedWorktrees(normalizedCwd, pol.allowedWorktrees)
     THEN CwdResult(validatePathAccessibility(cwd, normalizedRoot),
                    pol.allowedWorktrees, cache, FALSE, NotInserted)
     ELSE LET v == validateWorktreePath(normalizedCwd, normalizedRoot, cache, nowMs, git)
          IN IF v.found
             THEN CwdResult(validatePathAccessibility(cwd, v.root),
                            pol.allowedWorktrees \cup {v.root}, v.cache, v.invoked,
                            [root |-> v.root, found |-> TRUE])
             ELSE CwdResult(<<"cwd not allowed: ", cwd, " (must be within ",
                              pol.rootDirectory, ")">>,
                            pol.allowedWorktrees, v.cache, v.invoked, NotInserted)

ensureCwd(cwd, pol, cache, nowMs, git) ==
  LET normalizedCwd == resolve(cwd, <<>>)
      normalizedRoot == resolve(pol.rootDirectory, <<>>)
  IN IF WithinLexical(normalizedCwd, normalizedRoot)
     THEN CwdResult(validatePathAccessibility(cwd, normalizedRoot),
                    pol.allowedWorktrees, cache, FALSE, NotInserted)
     ELSE IF isWithinAllowedWorktrees(normalizedCwd, pol.allowedWorktrees)
     THEN CwdResult(validatePathAccessibility(cwd, normalizedRoot),
                    pol.allowedWorktrees, cache, FALSE, NotInserted)
     ELSE IF pol.worktreeDetectionEnabled
     THEN LET v == validateWorktreePath(normalizedCwd, normalizedRoot, cache, nowMs, git)
          IN IF v.found
             THEN CwdResult(validatePathAccessibility(cwd, v.root),
                            pol.allowedWorktrees \cup {v.root}, v.cache, v.invoked,
                            [root |-> v.root, found |-> TRUE])
             ELSE CwdResult(<<"cwd not allowed: ", cwd, " (must be within ",
                              pol.rootDirectory, ")">>,
                            pol.allowedWorktrees, v.cache, v.invoked, NotInserted)
     ELSE CwdResult(<<"cwd not allowed: ", cwd, " (must be within ",
                      pol.rootDirectory, ")">>,
                    pol.allowedWorktrees, cache, FALSE, NotInserted)

Min(a, b) == IF a < b THEN a ELSE b
Max(a, b) == IF a > b THEN a ELSE b

(* a request number: absent (or not of type number), the integer val, or  *)
(* val + 1/2 (half), so that Math.floor is val                            *)
(* form: what the JSON value is: a finite "number", a "string" that        *)
(* Number() turns into val, a "text" that Number() turns into NaN, a        *)
(* number beyond the doubles such as 1e999 ("Infinity"), or "null"          *)
Absent == [val |-> 0, present |-> FALSE, half |-> FALSE, form |-> "number"]
Num(n) == [val |-> n, present |-> TRUE, half |-> FALSE, form |-> "number"]
NumHalf(n) == [val |-> n, present |-> TRUE, half |-> TRUE, form |-> "number"]
Str(n) == [val |-> n, present |-> TRUE, half |-> FALSE, form |-> "string"]
NotANumber(form) == [val |-> 0, present |-> TRUE, half |-> FALSE, form |-> form]

(* variant: the request's clamped values are not capped by the policy     *)
getEffectiveLimitsNoCeiling(input, pol) ==
  [effectiveTimeoutMs |->
     IF input.timeout_seconds.present
     THEN Max(1, Min(300, input.timeout_seconds.val)) * 1000
     ELSE IF input.timeout_ms.present
     THEN Max(1, Min(input.timeout_ms.val, 300000))
     ELSE pol.timeoutMs,
   effectiveTimeoutHalf |-> FALSE,
   effectiveMaxBytes |->
     IF input.max_output_bytes.present
     THEN Max(1000, Min(10000000, input.max_output_bytes.val))
     ELSE pol.maxBytes]

(* timeout_seconds and max_output_bytes go through Math.floor (val);      *)
(* timeout_ms does not, so it is clamped in half milliseconds and the     *)
(* effective timeout is effectiveTimeoutMs, plus 1/2 when                 *)
(* effectiveTimeoutHalf                                                   *)
getEffectiveLimits(input, pol) ==
  LET ms2 == 2 * input.timeout_ms.val + (IF input.timeout_ms.half THEN 1 ELSE 0)
      eff2 == IF input.timeout_seconds.present
              THEN 2 * Min(Max(1, Min(300, input.timeout_seconds.val)) * 1000, pol.timeoutMs)
              ELSE IF input.timeout_ms.present
              THEN Min(Max(2, Min(ms2, 600000)), 2 * pol.timeoutMs)
              ELSE 2 * pol.timeoutMs
  IN [effectiveTimeoutMs |-> eff2 \div 2,
      effectiveTimeoutHalf |-> eff2 % 2 = 1,
      effectiveMaxBytes |->
        IF input.max_output_bytes.present
        THEN Min(Max(1000, Min(10000000, input.max_output_bytes.val)), pol.maxBytes)
        ELSE pol.maxBytes]

(* ---------------------------------------------------------------------- *)
(* lib/pagination: parseCursor                                             *)
(* ---------------------------------------------------------------------- *)
MAX_PAGE_LIMIT_BYTES == 40000

(* a cursor: undefined (NoCursor), an object, or a string such as "40000"  *)
(* (present, not an object); cursor_type "" is a missing cursor_type      *)
NoCursor == [present |-> FALSE, object |-> FALSE, cursor_type |-> "", offset |-> Absent]
Cursor(type, off) == [present |-> TRUE, object |-> TRUE, cursor_type |-> type, offset |-> off]

(* a fractional offset is returned as its floor and offsetHalf             *)
parseCursor(cursor) ==
  IF ~cursor.present \/ ~cursor.object
  THEN [ok |-> FALSE, error |-> "Invalid cursor format: expected object", offset |-> 0, offsetHalf |-> FALSE]
  ELSE IF cursor.cursor_type = ""
  THEN [ok |-> FALSE, error |-> "Invalid cursor format: missing or invalid 'cursor_type' property",
        offset |-> 0, offsetHalf |-> FALSE]
  ELSE IF cursor.cursor_type # "bytes"
  THEN [ok |-> FALSE, error |-> "Invalid cursor format: unsupported cursor_type", offset |-> 0, offsetHalf |-> FALSE]
  ELSE IF ~cursor.offset.present \/ cursor.offset.form = "null"
  THEN [ok |-> TRUE, error |-> None, offset |-> 0, offsetHalf |-> FALSE]
  ELSE IF cursor.offset.form \notin {"number", "string"}
  THEN [ok |-> FALSE, error |-> "Invalid cursor format: 'offset' must be a finite number",
        offset |-> 0, offsetHalf |-> FALSE]
  ELSE IF cursor.offset.val < 0
  THEN [ok |-> FALSE, error |-> "Invalid cursor format: 'offset' must be non-negative",
        offset |-> 0, offsetHalf |-> FALSE]
  ELSE [ok |-> TRUE, error |-> None, offset |-> cursor.offset.val,
        offsetHalf |-> cursor.offset.half]

(* ---------------------------------------------------------------------- *)
(* lib/execution: the spawn of execWithPagination                          *)
(* ---------------------------------------------------------------------- *)
NoChild ==
  [args |-> <<>>,
   cmd |-> <<>>,
   cwd |-> <<>>,
   timeoutMs |-> 0,
   maxBytes |-> 0,
   spawned |-> FALSE,
   env |-> <<>>]

(* later entries override earlier ones ({...base, ...extra})                *)
MergeEnv(base, extra) ==
  [k \in DOMAIN base \cup DOMAIN extra |-> IF k \in DOMAIN extra THEN extra[k] ELSE base[k]]

(* execWithPagination declares eight parameters; the handler's ninth       *)
(* argument (additionalEnv) is bound to nothing and the child is spawned   *)
(* with env: filteredEnv(policy).                                          *)
execWithPagination(cmd, args, cwd, timeoutMs, maxBytes, pol, pagination, onLargeOutput, additionalEnv) ==
  [args |-> args,
   cmd |-> cmd,
   cwd |-> cwd,
   timeoutMs |-> timeoutMs,
   maxBytes |-> maxBytes,
   spawned |-> TRUE,
   env |-> filteredEnv(pol)]

(* ---------------------------------------------------------------------- *)
(* handlers/shell-exec: handleShellExec up to the spawn of the child       *)
(* ---------------------------------------------------------------------- *)
NoPolicyCheck == [allowed |-> FALSE, reason |-> "", matchedRule |-> None, ruleType |-> None]

NoCwd == [ok |-> FALSE,
          cache |-> NoCache,
          allowedWorktrees |-> {},
          message |-> NoError,
          inserted |-> NotInserted,
          gitInvoked |-> FALSE]

(* What one call of the handler did: the response, the child it spawned,   *)
(* and the intermediate values of the pipeline.                            *)
Outcome(kind, isError, thrown, text, resolvedCwd, cwdChecked, c, stripped, wrapperInfo, policyChecked, full, policyCheck, child) ==
  [envVars |-> stripped.envVars,
   isWrapper |-> wrapperInfo.isWrapper,
   commandString |-> wrapperInfo.commandString,
   cwd |-> c,
   resolvedCwd |-> resolvedCwd,
   cwdChecked |-> cwdChecked,
   policyChecked |-> policyChecked,
   policyCheck |-> policyCheck,
   child |-> child,
   response |-> [kind |-> kind, isError |-> isError, thrown |-> thrown, text |-> text],
   fullCommandForPolicy |-> full]

NoStrip == [args |-> <<>>, cmd |-> <<>>, ok |-> FALSE, error |-> None, envVars |-> <<>>]

(* the argv handed to spawn                                                *)
ExecCmd(wrapperInfo, stripped) ==
  IF wrapperInfo.isWrapper
  THEN IF wrapperInfo.shell = "sh" THEN <<"/bin/sh">> ELSE <<"/bin/bash">>
  ELSE stripped.cmd

(* variant: the index of the trailing args is not shifted by the number   *)
(* of env vars                                                             *)
ExecArgsNoShift(input, wrapperInfo, stripped) ==
  IF wrapperInfo.isWrapper
  THEN LET envVars == stripped.envVars
           commandString ==
             IF Len(envVars) > 0
             THEN JoinSp(envVars) \o <<" ">> \o wrapperInfo.commandString
             ELSE wrapperInfo.commandString
           trailingArgs ==
             IF wrapperInfo.argsAfterCommand < Len(input.args)
             THEN SubSeq(input.args, wrapperInfo.argsAfterCommand + 1, Len(input.args))
             ELSE <<>>
       IN wrapperInfo.flagsBeforeCommand
          \o (IF wrapperInfo.shouldUseLogin THEN <<(<<"-", "l">>)>> ELSE <<>>)
          \o (IF wrapperInfo.shell = "bash"
              THEN << <<"-", "o">>, <<"pipefail">>, <<"-", "o">>, <<"errexit">>,
                      <<"-", "c">>, commandString >>
              ELSE << <<"-", "e">>, <<"-", "c">>, commandString >>)
          \o trailingArgs
  ELSE stripped.args

ExecArgs(input, wrapperInfo, stripped) ==
  IF wrapperInfo.isWrapper
  THEN LET envVars == stripped.envVars
           commandString ==
             IF Len(envVars) > 0
             THEN JoinSp(envVars) \o <<" ">> \o wrapperInfo.commandString
             ELSE wrapperInfo.commandString
           originalArgsAfterCommand == wrapperInfo.argsAfterCommand + Len(envVars)
           trailingArgs ==
             IF originalArgsAfterCommand < Len(input.args)
             THEN SubSeq(input.args, originalArgsAfterCommand + 1, Len(input.args))
             ELSE <<>>
       IN wrapperInfo.flagsBeforeCommand
          \o (IF wrapperInfo.shouldUseLogin THEN <<(<<"-", "l">>)>> ELSE <<>>)
          \o (IF wrapperInfo.shell = "bash"
              THEN << <<"-", "o">>, <<"pipefail">>, <<"-", "o">>, <<"errexit">>,
                      <<"-", "c">>, commandString >>
              ELSE << <<"-", "e">>, <<"-", "c">>, commandString >>)
          \o trailingArgs
  ELSE stripped.args

(* lines 168-175: the script handed to /bin/bash or /bin/sh after -c, cut  *)
(* where the shell ends a command (an unquoted ";")                        *)
RECURSIVE ShellList(_, _)
ShellList(script, current) ==
  IF script = <<>> THEN <<current>>
  ELSE IF Head(script) = ";" THEN <<current>> \o ShellList(Tail(script), <<>>)
  ELSE ShellList(Tail(script), Append(current, Head(script)))

(* the simple commands the shell runs for the script: of each command the  *)
(* leading NAME=value words are its assignments, the other words are the   *)
(* command and its arguments                                               *)
ShellRuns(script) ==
  LET simple(piece) ==
        LET words == parseShellCommand(piece)
            k == EnvScan(words, 1) - 1
        IN [words |-> SubSeq(words, k + 1, Len(words)), assign |-> SubSeq(words, 1, k)]
      pieces == ShellList(script, <<>>)
  IN [i \in 1..Len(pieces) |-> simple(pieces[i])]

(* lines 106-207: limits, page validation, spawn                           *)
ExecutePhase(input, pol, resolvedCwd, c, stripped, wrapperInfo, full, policyCheck) ==
  LET limits == getEffectiveLimits(input, pol)
      pagination == input.page
      parsed == parseCursor(pagination.cursor)
  IN IF pagination.limit_bytes.present /\ pagination.limit_bytes.val <= 0
     THEN Outcome("bad_limit", TRUE, FALSE, <<"Error: limit_bytes must be a positive number">>,
                  resolvedCwd, TRUE, c, stripped, wrapperInfo, TRUE, full, policyCheck, NoChild)
     ELSE IF pagination.limit_bytes.present
             /\ pagination.limit_bytes.val > MAX_PAGE_LIMIT_BYTES
     THEN Outcome("limit_too_large", TRUE, FALSE,
                  <<"Error: limit_bytes must be <= ", MAX_PAGE_LIMIT_BYTES>>,
                  resolvedCwd, TRUE, c, stripped, wrapperInfo, TRUE, full, policyCheck, NoChild)
     ELSE IF pagination.cursor.present /\ ~parsed.ok
     THEN Outcome("bad_cursor", TRUE, FALSE,
                  <<"Error: Invalid cursor format in pagination config: ", parsed.error>>,
                  resolvedCwd, TRUE, c, stripped, wrapperInfo, TRUE, full, policyCheck, NoChild)
     ELSE Outcome("spawned", FALSE, FALSE, <<>>,
                  resolvedCwd, TRUE, c, stripped, wrapperInfo, TRUE, full, policyCheck,
                  execWithPagination(ExecCmd(wrapperInfo, stripped),
                                     ExecArgs(input, wrapperInfo, stripped),
                                     resolvedCwd, limits.effectiveTimeoutMs,
                                     limits.effectiveMaxBytes, pol, pagination,
                                     input.on_large_output,
                                     IF Len(stripped.envVars) > 0
                                     THEN parseEnvVars(stripped.envVars) ELSE <<>>))

(* the line the policy is checked against (lines 62-73)                    *)
FullCommandForPolicy(wrapperInfo, stripped) ==
  IF wrapperInfo.isWrapper
  THEN JoinSp(parseShellCommand(wrapperInfo.commandString))
  ELSE buildCmdLine(stripped.cmd, stripped.args)

(* variant: a policy denial does not end the request                       *)
CommandPhaseIgnoresDenial(input, pol, resolvedCwd, c) ==
  LET stripped == StripEnvPrefix(input.cmd, input.args)
      wrapperInfo == parseShellWrapper(stripped.cmd, stripped.args)
      full == FullCommandForPolicy(wrapperInfo, stripped)
      policyCheck == checkCommandPolicy(full, pol)
  IN IF ~stripped.ok
     THEN Outcome("env_error", TRUE, FALSE, <<"Error: ", stripped.error>>,
                  resolvedCwd, TRUE, c, NoStrip, NotWrapper(<<>>), FALSE, <<>>,
                  NoPolicyCheck, NoChild)
     ELSE IF ~wrapperInfo.ok
     THEN Outcome("wrapper_error", TRUE, FALSE, <<"Error: ", wrapperInfo.error>>,
                  resolvedCwd, TRUE, c, stripped, NotWrapper(<<>>), FALSE, <<>>,
                  NoPolicyCheck, NoChild)
     ELSE ExecutePhase(input, pol, resolvedCwd, c, stripped, wrapperInfo, full, policyCheck)

(* lines 33-104: env prefix, wrapper, policy                               *)
CommandPhase(input, pol, resolvedCwd, c) ==
  LET stripped == StripEnvPrefix(input.cmd, input.args)
      wrapperInfo == parseShellWrapper(stripped.cmd, stripped.args)
      full == FullCommandForPolicy(wrapperInfo, stripped)
      policyCheck == checkCommandPolicy(full, pol)
  IN IF ~stripped.ok
     THEN Outcome("env_error", TRUE, FALSE, <<"Error: ", stripped.error>>,
                  resolvedCwd, TRUE, c, NoStrip, NotWrapper(<<>>), FALSE, <<>>,
                  NoPolicyCheck, NoChild)
     ELSE IF ~wrapperInfo.ok
     THEN Outcome("wrapper_error", TRUE, FALSE, <<"Error: ", wrapperInfo.error>>,
                  resolvedCwd, TRUE, c, stripped, NotWrapper(<<>>), FALSE, <<>>,
                  NoPolicyCheck, NoChild)
     ELSE IF ~policyCheck.allowed
     THEN Outcome("denied", TRUE, FALSE,
                  <<"Denied by policy: ", full, "Reason: ", policyCheck.reason,
                    policyCheck.ruleType, policyCheck.matchedRule>>,
                  resolvedCwd, TRUE, c, stripped, wrapperInfo, TRUE, full, policyCheck,
                  NoChild)
     ELSE ExecutePhase(input, pol, resolvedCwd, c, stripped, wrapperInfo, full, policyCheck)

(* variant: an absolute cwd is resolved and validated like a relative one *)
handleShellExecNoAbsCheck(input, pol, cache, nowMs, git) ==
  IF ~input.page.present
  THEN Outcome("no_page", TRUE, FALSE, <<"Error: pagination parameters are required">>,
               <<>>, FALSE, NoCwd, NoStrip, NotWrapper(<<>>), FALSE, <<>>, NoPolicyCheck,
               NoChild)
  ELSE LET resolvedCwd == IF input.cwd.present /\ input.cwd.abs
                          THEN resolve(<<>>, input.cwd.segs)
                          ELSE resolve(pol.rootDirectory,
                                       IF input.cwd.present THEN input.cwd.segs
                                       ELSE <<<<".">>>>)
           c == ensureCwd(resolvedCwd, pol, cache, nowMs, git)
       IN IF ~c.ok
          THEN Outcome("cwd_error", TRUE, TRUE, c.message,
                       resolvedCwd, TRUE, c, NoStrip, NotWrapper(<<>>), FALSE, <<>>,
                       NoPolicyCheck, NoChild)
          ELSE CommandPhase(input, pol, resolvedCwd, c)

handleShellExec(input, pol, cache, nowMs, git) ==
  IF ~input.page.present
  THEN Outcome("no_page", TRUE, FALSE, <<"Error: pagination parameters are required">>,
               <<>>, FALSE, NoCwd, NoStrip, NotWrapper(<<>>), FALSE, <<>>, NoPolicyCheck,
               NoChild)
  ELSE IF input.cwd.present /\ input.cwd.abs
  THEN Outcome("abs_cwd", TRUE, FALSE,
               <<"Error: cwd must be a relative path within sandbox root. Received absolute: ",
                 input.cwd, ". Sandbox root: ", pol.rootDirectory>>,
               <<>>, FALSE, NoCwd, NoStrip, NotWrapper(<<>>), FALSE, <<>>, NoPolicyCheck,
               NoChild)
  ELSE LET resolvedCwd == resolve(pol.rootDirectory,
                                  IF input.cwd.present THEN input.cwd.segs ELSE <<<<".">>>>)
           c == ensureCwd(resolvedCwd, pol, cache, nowMs, git)
       IN IF ~c.ok
          THEN Outcome("cwd_error", TRUE, TRUE, c.message,
                       resolvedCwd, TRUE, c, NoStrip, NotWrapper(<<>>), FALSE, <<>>,
                       NoPolicyCheck, NoChild)
          ELSE CommandPhase(input, pol, resolvedCwd, c)

(* ---------------------------------------------------------------------- *)
(* What a spawned child writes.  A byte of a stream is named by its        *)
(* position in the stream, so a Buffer is a sequence of segments [lo, hi)  *)
(* of stream positions.  width 1: ASCII text with a newline at the end of  *)
(* every lineLen-th byte (lineLen = 0: no newline); width 2: two-byte      *)
(* UTF-8 characters, lead byte at the even positions, no newline.          *)
(* ---------------------------------------------------------------------- *)
(* ending: how the child's life ends, at milliseconds after the spawn:   *)
(* kind "exit" (with code), "error" (the child emits 'error': it could not *)
(* be spawned, at 0, or a later process error), "hang" (it never ends by   *)
(* itself) or "pipe_error" (reading a pipe fails; the child exits with     *)
(* code).  chunks and stderrBytes are what the pipes deliver before that.  *)
(* stderrChunks: the reads of the stderr pipe; late: how many of the last *)
(* stdout reads are delivered only after the child's 'exit' event, whose  *)
(* stdio streams may still be open then.                                  *)
Program(width, lineLen, chunks, stderrBytes) ==
  [width |-> width, lineLen |-> lineLen, chunks |-> chunks, stderrBytes |-> stderrBytes,
   stderrChunks |-> IF stderrBytes = 0 THEN <<>> ELSE <<stderrBytes>>,
   late |-> 0,
   ending |-> [kind |-> "exit", code |-> 0, at |-> 0]]

RECURSIVE SumSeq(_)
SumSeq(s) == IF s = <<>> THEN 0 ELSE Head(s) + SumSeq(Tail(s))

StdoutBytes(prog) == SumSeq(prog.chunks)

Seg(lo, hi) == [lo |-> lo, hi |-> hi]

RECURSIVE BufLength(_)
BufLength(buf) == IF buf = <<>> THEN 0 ELSE (Head(buf).hi - Head(buf).lo) + BufLength(Tail(buf))

(* Buffer.concat([buf, c]) *)
BufConcat(buf, seg) ==
  IF seg.hi <= seg.lo THEN buf
  ELSE IF buf # <<>> /\ buf[Len(buf)].hi = seg.lo
  THEN [buf EXCEPT ![Len(buf)] = Seg(buf[Len(buf)].lo, seg.hi)]
  ELSE Append(buf, seg)

(* the bytes at buffer indexes [from, to) of buf, whose first byte has     *)
(* buffer index at                                                          *)
RECURSIVE BufRange(_, _, _, _)
BufRange(buf, at, from, to) ==
  IF buf = <<>> \/ to <= from THEN <<>>
  ELSE LET s == Head(buf)
           n == s.hi - s.lo
           a == Max(from, at)
           b == Min(to, at + n)
           rest == BufRange(Tail(buf), at + n, from, to)
       IN IF a < b THEN <<Seg(s.lo + (a - at), s.lo + (b - at))>> \o rest ELSE rest

(* buf.subarray(start, end) for start, end >= 0: both are clamped to the   *)
(* length and an empty range gives an empty buffer                          *)
subarray(buf, start, end) ==
  BufRange(buf, 0, Min(start, BufLength(buf)), Min(end, BufLength(buf)))

(* buf.slice(-keepBytes); slice(-0) is slice(0), the whole buffer          *)
sliceLast(buf, keepBytes) ==
  IF keepBytes = 0 THEN buf
  ELSE subarray(buf, Max(0, BufLength(buf) - keepBytes), BufLength(buf))


(* buf.toString("utf8") followed by Buffer.byteLength(s, "utf8"): a byte   *)
(* that is not part of a complete character decodes to U+FFFD, which is    *)
(* three bytes long.  prevLead: the byte before the buffer's first byte is *)
(* a lead byte still waiting for its continuation.                         *)
RECURSIVE DecodedLength(_, _, _)
DecodedLength(buf, width, prevLead) ==
  IF buf = <<>> THEN (IF prevLead THEN 3 ELSE 0)
  ELSE LET s == Head(buf)
           n == s.hi - s.lo
       IN IF width = 1 THEN n + DecodedLength(Tail(buf), width, FALSE)
          ELSE LET startsCont == (s.lo % 2 = 1)
                   endsLead == (s.hi % 2 = 1)
                   \* a leading continuation byte completes a pending lead (2 bytes)
                   \* or stands alone (3 bytes); a pending lead not completed is alone
                   first == IF startsCont THEN (IF prevLead THEN 2 ELSE 3)
                            ELSE (IF prevLead THEN 3 ELSE 0)
                   whole == n - (IF startsCont THEN 1 ELSE 0) - (IF endsLead THEN 1 ELSE 0)
               IN first + whole + DecodedLength(Tail(buf), width, endsLead)

byteLength(buf, width) == DecodedLength(buf, width, FALSE)

(* number of "\n" among the bytes of buf *)
RECURSIVE Newlines(_, _)
Newlines(buf, lineLen) ==
  IF buf = <<>> \/ lineLen = 0 THEN 0
  ELSE (Head(buf).hi \div lineLen) - (Head(buf).lo \div lineLen)
         + Newlines(Tail(buf), lineLen)

(* content.split("\n").length *)
countLines(buf, lineLen) == Newlines(buf, lineLen) + 1

DEFAULT_PAGE_LIMIT_BYTES == MAX_PAGE_LIMIT_BYTES

(* ---------------------------------------------------------------------- *)
(* lib/execution: execWithPagination after the spawn                       *)
(* ---------------------------------------------------------------------- *)
LimitBytes(pagination) ==
  Min(Max(1, IF pagination.limit_bytes.present THEN pagination.limit_bytes.val
             ELSE DEFAULT_PAGE_LIMIT_BYTES),
      MAX_PAGE_LIMIT_BYTES)

LimitLines(pagination) ==
  IF pagination.limit_lines.present /\ pagination.limit_lines.val # 0
  THEN pagination.limit_lines.val ELSE 2000

StartOffset(pagination) ==
  IF pagination.cursor.present THEN parseCursor(pagination.cursor).offset ELSE 0

(* the name of a spill file: exec-<id>.out or exec-<id>.err under           *)
(* ~/.shemcp/tmp, the same name in the path and in the mcp://tmp/ uri       *)
(* what follows "mcp://tmp/" in a uri: the directory segments before the  *)
(* file's name, none in the uris createSpillFile makes, and the name      *)
SpillName(id, ext) == [id |-> id, ext |-> ext, dir |-> <<>>]

(* join(homedir(), ".shemcp", "tmp") *)
TmpDir == <<<<"home">>, <<"u">>, <<".shemcp">>, <<"tmp">>>>

(* read-file-chunk.ts lines 56-57: join(homedir(), ".shemcp", "tmp",      *)
(* fileName), which normalises "." and ".." segments                      *)
filePath(uri) == [uri EXCEPT !.dir = resolve(TmpDir, uri.dir)]

(* a file of the host outside the spill directory: /etc/passwd            *)
HostFiles ==
  {[name |-> [id |-> 0, ext |-> "passwd", dir |-> <<<<"etc">>>>],
    bytes |-> <<[lo |-> 0, hi |-> 1200]>>]}

NoName == SpillName(0, "")

createSpillFile(id) == [uri |-> SpillName(id, "out"), stderrUri |-> SpillName(id, "err")]

(* a file on disk and the stream whose bytes it holds *)

FileSize(f) == BufLength(f.bytes)

(* variant: the chunk replaces the file's content                          *)
appendFileSyncOverwrites(file, total, c) == <<Seg(total, total + c)>>

(* lines 88-96 and 112-119: appendFileSync(path, c) of the chunk that      *)
(* starts at stream position total, to the file's content so far           *)
appendFileSync(file, total, c) == Append(file, Seg(total, total + c))

(* the file after the data events of the given reads                     *)
RECURSIVE SpillLoop(_, _, _)
SpillLoop(chunks, file, total) ==
  IF chunks = <<>> THEN file
  ELSE SpillLoop(Tail(chunks), appendFileSync(file, total, Head(chunks)),
                 total + Head(chunks))

(* the content of a file as maximal runs of consecutive stream bytes       *)
RECURSIVE Runs(_)
Runs(file) ==
  IF Len(file) < 2 THEN file
  ELSE IF file[1].hi = file[2].lo
  THEN Runs(<<Seg(file[1].lo, file[2].hi)>> \o SubSeq(file, 3, Len(file)))
  ELSE <<file[1]>> \o Runs(Tail(file))

(* child.stdout.on("data"), lines 69-97, on the in-memory buffer *)
OnStdoutData(st, c, limitBytes, maxBytes) ==
  LET maxMemoryBytes == Max(limitBytes * 2, maxBytes)
      kept == IF BufLength(st.buffer) > maxMemoryBytes
              THEN sliceLast(st.buffer, Min(limitBytes, maxMemoryBytes \div 2))
              ELSE st.buffer
  IN [total |-> st.total + c,
      buffer |-> IF BufLength(kept) + c <= maxMemoryBytes
                 THEN BufConcat(kept, Seg(st.total, st.total + c))
                 ELSE kept]

(* child.stderr.on("data"), lines 99-120, on the in-memory buffer *)
OnStderrData(st, c, limitBytes, maxBytes) ==
  LET maxMemoryBytes == Max(limitBytes * 2, maxBytes)
      kept == IF BufLength(st.buffer) > maxMemoryBytes
              THEN sliceLast(st.buffer, Min(limitBytes, maxMemoryBytes \div 2))
              ELSE st.buffer
  IN [total |-> st.total + c,
      buffer |-> BufConcat(kept, Seg(st.total, st.total + c))]

RECURSIVE StderrLoop(_, _, _, _)
StderrLoop(chunks, st, limitBytes, maxBytes) ==
  IF chunks = <<>> THEN st
  ELSE StderrLoop(Tail(chunks), OnStderrData(st, Head(chunks), limitBytes, maxBytes),
                  limitBytes, maxBytes)

RECURSIVE StdoutLoop(_, _, _, _)
StdoutLoop(chunks, st, limitBytes, maxBytes) ==
  IF chunks = <<>> THEN st
  ELSE StdoutLoop(Tail(chunks), OnStdoutData(st, Head(chunks), limitBytes, maxBytes),
                  limitBytes, maxBytes)

(* readFileRange on a file of the given size *)
readFileRange(size, start, end) ==
  IF end <= start THEN <<>>
  ELSE IF start < Min(end, size) THEN <<Seg(start, Min(end, size))>> ELSE <<>>

NoNextCursor == [present |-> FALSE, offset |-> 0]

NoSpillFile == [present |-> FALSE,
                uri |-> NoName,
                stderrUri |-> NoName,
                hasUri |-> FALSE,
                hasStderrUri |-> FALSE]

(* lines 141-159: the page of stdout, from the spill file if one was       *)
(* written and from the in-memory buffer otherwise                         *)
ReturnedStdout(fromSpill, startOffset, limitBytes, totalStdoutBytes, stdoutBuffer) ==
  IF fromSpill
  THEN readFileRange(totalStdoutBytes, startOffset,
                     Min(startOffset + limitBytes, totalStdoutBytes))
  ELSE subarray(stdoutBuffer, startOffset,
                Min(startOffset + limitBytes, BufLength(stdoutBuffer)))

(* variant: a cursor is handed out at the very end of the stream too      *)
NextCursorAtEnd(needsPagination, onLargeOutput, hasSpillFile, totalStdoutBytes, nextOffset) ==
  IF needsPagination /\ onLargeOutput = "truncate" THEN NoNextCursor
  ELSE IF needsPagination /\ onLargeOutput = "error" THEN NoNextCursor
  ELSE IF needsPagination /\ hasSpillFile /\ totalStdoutBytes >= nextOffset
  THEN [present |-> TRUE, offset |-> nextOffset]
  ELSE NoNextCursor

(* variant: the cursor names the byte after the first byte not returned    *)
NextCursorOffByOne(needsPagination, onLargeOutput, hasSpillFile, totalStdoutBytes, nextOffset) ==
  IF needsPagination /\ onLargeOutput = "truncate" THEN NoNextCursor
  ELSE IF needsPagination /\ onLargeOutput = "error" THEN NoNextCursor
  ELSE IF needsPagination /\ hasSpillFile /\ totalStdoutBytes > nextOffset
  THEN [present |-> TRUE, offset |-> nextOffset + 1]
  ELSE NoNextCursor

(* lines 182-196 *)
NextCursor(needsPagination, onLargeOutput, hasSpillFile, totalStdoutBytes, nextOffset) ==
  IF needsPagination /\ onLargeOutput = "truncate" THEN NoNextCursor
  ELSE IF needsPagination /\ onLargeOutput = "error" THEN NoNextCursor
  ELSE IF needsPagination /\ hasSpillFile /\ totalStdoutBytes > nextOffset
  THEN [present |-> TRUE, offset |-> nextOffset]
  ELSE NoNextCursor

(* lines 46-251: what execWithPagination returns (or that it throws) for a *)
(* child that behaves as prog, and the spill files it leaves on disk       *)
(* variant: the timer is not cleared when the child ends, and fires      *)
ExitKillerNotCleared(ending, timeoutMs) ==
  IF ending.kind = "exit"
  THEN {[code |-> Num(ending.code), signal |-> "null", killed |-> TRUE, threw |-> FALSE]}
  ELSE {[code |-> Absent, signal |-> "SIGKILL", killed |-> TRUE, threw |-> FALSE]}

(* lines 122-136: what the exit promise resolves with, and whether the    *)
(* killer timer fired first.  code Absent is null.  When the child ends   *)
(* in the very millisecond the timer fires, either can come first.  The   *)
(* promise listens to the child's 'exit' and 'error' only: a read error   *)
(* on a pipe is an 'error' event of child.stdout or child.stderr, which   *)
(* have 'data' listeners alone (lines 69, 99), so it is thrown as an      *)
(* uncaught exception (threw), or, where the process survives it, the     *)
(* call goes on to the child's own end.                                   *)
Exit(ending, timeoutMs) ==
  LET ended == [code |-> IF ending.kind = "error" THEN Num(-1) ELSE Num(ending.code),
                signal |-> "null", killed |-> FALSE, threw |-> FALSE]
      killed == [code |-> Absent, signal |-> "SIGKILL", killed |-> TRUE, threw |-> FALSE]
      uncaught == [code |-> Absent, signal |-> "null", killed |-> FALSE, threw |-> TRUE]
  IN (IF ending.kind = "hang" \/ ending.at > timeoutMs THEN {killed}
      ELSE IF ending.at < timeoutMs THEN {ended}
      ELSE {ended, killed})
       \cup (IF ending.kind = "pipe_error" THEN {uncaught} ELSE {})

execWithPaginationResult(child, pagination, onLargeOutput, prog, id, result) ==
  LET limitBytes == LimitBytes(pagination)
      limitLines == LimitLines(pagination)
      startOffset == StartOffset(pagination)
      hasSpillFile == onLargeOutput = "spill"
      spillFile == createSpillFile(id)
      seen == SubSeq(prog.chunks, 1, Len(prog.chunks) - prog.late)
      st == StdoutLoop(seen, [total |-> 0, buffer |-> <<>>], limitBytes, child.maxBytes)
      est == StderrLoop(prog.stderrChunks, [total |-> 0, buffer |-> <<>>], limitBytes,
                        child.maxBytes)
      totalStdoutBytes == st.total
      totalStderrBytes == est.total
      hasStdoutSpill == hasSpillFile /\ seen # <<>>
      hasStderrSpill == hasSpillFile /\ prog.stderrChunks # <<>>
      returnedStdout == ReturnedStdout(hasSpillFile /\ hasStdoutSpill, startOffset, limitBytes,
                                       totalStdoutBytes, st.buffer)
      stdoutLines == countLines(returnedStdout, prog.lineLen)
      totalBytes == totalStdoutBytes + totalStderrBytes
      needsPagination == totalStdoutBytes > limitBytes \/ stdoutLines > limitLines
      nextOffset == startOffset + byteLength(returnedStdout, prog.width)
      written == (IF hasStdoutSpill
                  THEN {[prog |-> prog,
                         name |-> spillFile.uri,
                         bytes |-> Runs(SpillLoop(seen, <<>>, 0))]}
                  ELSE {})
                   \cup (IF hasStderrSpill
                         THEN {[prog |-> prog,
                                name |-> spillFile.stderrUri,
                                bytes |-> Runs(SpillLoop(prog.stderrChunks, <<>>, 0))]}
                         ELSE {})
      lateChunks == SubSeq(prog.chunks, Len(seen) + 1, Len(prog.chunks))
  IN [signal |-> result.signal,
      killed |-> result.killed,
      threw |-> result.threw \/ (needsPagination /\ onLargeOutput = "error"),
      spillFile |->
        IF hasSpillFile /\ (hasStdoutSpill \/ hasStderrSpill)
        THEN [present |-> TRUE,
              uri |-> spillFile.uri,
              stderrUri |-> spillFile.stderrUri,
              hasUri |-> hasStdoutSpill,
              hasStderrUri |-> hasStderrSpill]
        ELSE NoSpillFile,
      totalBytes |-> totalBytes,
      written |-> written,
      exitCode |-> IF result.code.present THEN result.code.val ELSE -1,
      stdout |-> returnedStdout,
      truncated |-> needsPagination /\ onLargeOutput = "truncate",
      nextCursor |-> NextCursor(needsPagination, onLargeOutput, hasSpillFile,
                                totalStdoutBytes, nextOffset),
      lineCount |-> stdoutLines,
      lateName |-> spillFile.uri,
      lateBytes |-> IF hasSpillFile THEN SpillLoop(lateChunks, <<>>, st.total) ELSE <<>>]

(* the stdout reads handled after the result was built append to the      *)
(* spill file, which appendFileSync creates when it is not there           *)
LateAppend(files, res, prog) ==
  IF res.lateBytes = <<>> THEN files
  ELSE {f \in files : f.name # res.lateName}
         \cup {[prog |-> prog,
                name |-> res.lateName,
                bytes |-> Runs((IF \E f \in files : f.name = res.lateName
                                THEN (CHOOSE f \in files : f.name = res.lateName).bytes
                                ELSE <<>>) \o res.lateBytes)]}

(* ---------------------------------------------------------------------- *)
(* handlers/shell-exec: handleShellExec from the spawn to the response     *)
(* ---------------------------------------------------------------------- *)
NoReply ==
  [isError |-> FALSE,
   thrown |-> FALSE,
   signal |-> "null",
   killed |-> FALSE,
   truncated |-> FALSE,
   tool |-> "none",
   executed |-> FALSE,
   exit_code |-> 0,
   stdout_chunk |-> <<>>,
   bytes_start |-> 0,
   bytes_end |-> 0,
   total_bytes |-> 0,
   next_cursor |-> NoNextCursor,
   line_count |-> 0,
   hasSpillUri |-> FALSE,
   spill_uri |-> NoName,
   hasStderrSpillUri |-> FALSE,
   stderr_spill_uri |-> NoName]

(* the error responses of both tools, and the exception execWithPagination *)
(* throws through the handler                                              *)
ErrorReply(tool, thrown, executed) ==
  [NoReply EXCEPT !.tool = tool, !.isError = TRUE, !.thrown = thrown, !.executed = executed]

(* variant: the spill files are never deleted                              *)
CleansUpNever(res) == FALSE

(* variant: the spill files are deleted after every call                   *)
CleansUpAlways(res) == res.spillFile.present

(* lines 209-213: the spill files are deleted when no page is left         *)
CleansUp(res) == res.spillFile.present /\ ~res.nextCursor.present

(* lines 197-254.  o: the handler's outcome up to the spawn; prog: what    *)
(* the child does; id: the uuid createSpillFile draws.  files: the spill   *)
(* files the call leaves on disk.  result: what the exit promise gave;    *)
(* killed is not a response field, it records that the timer fired.      *)
ShellExecResponse(o, req, prog, id, result) ==
  IF ~o.child.spawned
  THEN [files |-> {},
        reply |-> ErrorReply("shell_exec", o.response.thrown, FALSE),
        spilled |-> {}]
  ELSE LET Response(res) ==
        LET cleanup == CleansUp(res)
            spillFile == IF cleanup THEN NoSpillFile ELSE res.spillFile
            bytes_start == StartOffset(req.page)
        IN IF res.threw
           THEN [files |-> LateAppend(res.written, res, prog),
                 reply |-> [ErrorReply("shell_exec", TRUE, TRUE) EXCEPT !.killed = res.killed],
                 spilled |-> res.written]
           ELSE [files |-> LateAppend(IF cleanup THEN {} ELSE res.written, res, prog),
                 reply |->
                   [isError |-> FALSE,
                    thrown |-> FALSE,
                    signal |-> res.signal,
                    killed |-> res.killed,
                    truncated |-> res.truncated,
                    tool |-> "shell_exec",
                    executed |-> TRUE,
                    exit_code |-> res.exitCode,
                    stdout_chunk |-> res.stdout,
                    bytes_start |-> bytes_start,
                    bytes_end |-> bytes_start + byteLength(res.stdout, prog.width),
                    total_bytes |-> res.totalBytes,
                    next_cursor |-> res.nextCursor,
                    line_count |-> res.lineCount,
                    hasSpillUri |-> spillFile.present /\ spillFile.hasUri,
                    spill_uri |-> IF spillFile.present /\ spillFile.hasUri
                                  THEN spillFile.uri ELSE NoName,
                    hasStderrSpillUri |-> spillFile.present /\ spillFile.hasStderrUri,
                    stderr_spill_uri |-> IF spillFile.present /\ spillFile.hasStderrUri
                                         THEN spillFile.stderrUri ELSE NoName],
                 spilled |-> res.written]
       IN Response(execWithPaginationResult(o.child, req.page, req.on_large_output, prog, id,
                                            result))

(* ---------------------------------------------------------------------- *)
(* handlers/read-file-chunk: handleReadFileChunk                           *)
(* ---------------------------------------------------------------------- *)
ReadInput(uri, cursor, limit) == [cursor |-> cursor, limit_bytes |-> limit, uri |-> uri]

handleReadFileChunk(req, files) ==
  LET numericLimit == IF req.limit_bytes.present THEN req.limit_bytes.val
                      ELSE DEFAULT_PAGE_LIMIT_BYTES
      limitBytes == Min(Max(numericLimit, 1), MAX_PAGE_LIMIT_BYTES)
      cursor == IF req.cursor.present THEN req.cursor ELSE Cursor("bytes", Num(0))
      found == {f \in files : filePath(f.name) = filePath(req.uri)}
                 \cup {[name |-> req.uri, bytes |-> f.bytes] :
                         f \in {h \in HostFiles : h.name = filePath(req.uri)}}
  IN IF numericLimit <= 0 \/ numericLimit > MAX_PAGE_LIMIT_BYTES
     THEN ErrorReply("read_file_chunk", FALSE, FALSE)
     ELSE IF ~parseCursor(cursor).ok
     THEN ErrorReply("read_file_chunk", FALSE, FALSE)
     ELSE IF found = {}
     THEN ErrorReply("read_file_chunk", FALSE, FALSE)
     ELSE LET f == CHOOSE x \in found : TRUE
              totalBytes == FileSize(f)
              offset == parseCursor(cursor).offset
              endPos == Min(offset + limitBytes, totalBytes)
          IN IF parseCursor(cursor).offsetHalf /\ offset < totalBytes
             THEN ErrorReply("read_file_chunk", FALSE, FALSE)
             ELSE
             [NoReply EXCEPT
                !.tool = "read_file_chunk",
                !.stdout_chunk = readFileRange(totalBytes, offset, endPos),
                !.bytes_start = offset,
                !.bytes_end = endPos,
                !.total_bytes = totalBytes,
                !.next_cursor = IF endPos < totalBytes
                                THEN [present |-> TRUE, offset |-> endPos]
                                ELSE NoNextCursor,
                !.hasSpillUri = TRUE,
                !.spill_uri = req.uri]

(* ---------------------------------------------------------------------- *)
(* The requests the model issues                                           *)
(* ---------------------------------------------------------------------- *)
W(word) == <<word>>
FOO_BAR == <<"FOO", "=", "bar">>
DASH_C == <<"-", "c">>
DASH_LC == <<"-", "l", "c">>

CS_PUSH_MAIN == <<"git", " ", "push", " ", "origin", " ", "main">>

DirectCommands ==
  { <<W("git"), <<W("status")>> >>, <<W("git"), <<W("push"), W("origin"), W("main")>> >>, <<W("git"), <<W("push")>> >>,
    <<W("rm"), <<W("x")>> >>, <<W("echo"), <<W("hi"), W("main")>> >>, <<W("git"), <<>> >>,
    <<FOO_BAR, <<W("git"), W("status")>> >>, <<FOO_BAR, <<<<"PATH", "=", "/evil">>, W("git"), W("push"), W("origin"), W("main")>> >>,
    <<FOO_BAR, <<W("echo"), W("hi")>> >>, <<FOO_BAR, <<>> >>, <<FOO_BAR, <<<<"PATH", "=", "/evil">>>> >>,
    <<BASH, <<W("script")>> >> }

WrapperCommands ==
  { <<BASH, <<DASH_C, <<"git", " ", "status">>>> >>, <<BASH, <<DASH_C, CS_PUSH_MAIN>> >>,
    <<BASH, <<DASH_LC, CS_PUSH_MAIN>> >>, <<BASH, <<<<"-", "l">>, DASH_C, CS_PUSH_MAIN>> >>,
    <<<<"sh">>, <<DASH_C, CS_PUSH_MAIN>> >>, <<<<"sh">>, <<DASH_LC, <<"git", " ", "status">>>> >>,
    <<FOO_BAR, <<BASH, DASH_C, CS_PUSH_MAIN>> >>,
    <<FOO_BAR, <<<<"PATH", "=", "/evil">>, <<"sh">>, DASH_LC, <<"GIT", " ", " ", "PUSH", " ", "main">>>> >>,
    <<FOO_BAR, <<BASH, DASH_C, (<<"echo", " ", "\"", "$", "1", "\"">>), <<"-", "-">>, W("a1")>> >>,
    <<BASH, <<<<"-", "-", "noprofile">>, <<"-", "x", "e", "c">>, (<<"git", " ", "\"", "push", "\"", " ", "'", "main", "'">>)>> >>,
    <<BASH, <<DASH_C, <<"rm", " ", "x">>>> >>, <<BASH, <<DASH_LC, (<<"bash", " ", "-", "l", "c", " ", "'">> \o CS_PUSH_MAIN \o <<"'">>)>> >>,
    <<BASH, <<DASH_C>> >>, <<BASH, <<<<"-", "l">>>> >>, <<BASH, <<DASH_LC, <<" ", " ">>>> >>,
    <<BASH, <<DASH_C, <<>> >> >>, <<BASH, <<DASH_C, <<"\t">> >> >>,
    <<<<"sh">>, <<DASH_LC, <<" ", "\t", " ">> >> >>, <<FOO_BAR, <<BASH, DASH_C, <<" ">> >> >>,
    <<BASH, <<DASH_C, <<"git", " ", "status">>, <<"-", "-">>, W("a1"), W("a2")>> >>,
    <<FOO_BAR, <<<<"BAZ", "=", "1">>, <<"sh">>, <<"-", "o">>, W("posix"), DASH_LC,
                 <<"git", " ", "status">>, W("a1"), <<"K", "=", "v">>, W("a2")>> >>,
    <<<<"FOO", "=", "1", ";", "rm">>, <<BASH, DASH_C, <<"git", " ", "status">>>> >>,
    <<<<"FOO", "=", "a", " ", "rm">>, <<<<"sh">>, DASH_C, <<"git", " ", "status">>>> >> }


Rel(segs) == [segs |-> segs, present |-> TRUE, abs |-> FALSE]
AbsPath(segs) == [segs |-> segs, present |-> TRUE, abs |-> TRUE]
CwdAbsent == [segs |-> <<>>, present |-> FALSE, abs |-> FALSE]

RelativeCwds ==
  { CwdAbsent, Rel(<<<<".">>>>), Rel(<<<<"src">>>>), Rel(<<<<"src">>, DOTDOT, <<"priv">>>>),
    Rel(<<<<"out">>>>), Rel(<<<<"missing">>>>), Rel(<<DOTDOT>>), Rel(<<DOTDOT, <<"other">>>>),
    Rel(<<DOTDOT, <<"proj", "-f">>>>), Rel(<<DOTDOT, <<"proj", "-f">>, <<"src">>>>),
    Rel(<<DOTDOT, <<"proj", "-f">>, <<"esc">>>>), Rel(<<DOTDOT, <<"proj", "2">>>>),
    Rel(<<DOTDOT, DOTDOT, <<"etc">>>>) }



NoPage == [present |-> FALSE, cursor |-> NoCursor, limit_bytes |-> Absent, limit_lines |-> Absent]
PageLines(cursor, limit, lines) ==
  [present |-> TRUE, cursor |-> cursor, limit_bytes |-> limit, limit_lines |-> lines]
Page(cursor, limit) == PageLines(cursor, limit, Absent)
PageOk == Page(Cursor("bytes", Num(0)), Absent)

Pages ==
  { NoPage, PageOk, Page(NoCursor, Num(MAX_PAGE_LIMIT_BYTES)),
    Page(Cursor("bytes", Num(0)), Num(MAX_PAGE_LIMIT_BYTES + 1)),
    Page(Cursor("bytes", Num(0)), Num(0)),
    Page(Cursor("lines", Num(0)), Absent), Page(Cursor("bytes", Num(-1)), Absent) }

InputFull(command, cwd, page, maxOutputBytes, onLargeOutput) ==
  [args |-> command[2], cmd |-> command[1], cwd |-> cwd,
   timeout_seconds |-> Absent, timeout_ms |-> Absent, max_output_bytes |-> maxOutputBytes,
   page |-> page, on_large_output |-> onLargeOutput]

(* on_large_output || "spill" *)
Input(command, cwd, page) == InputFull(command, cwd, page, Absent, "spill")



(* requests that vary the working directory *)
Requests ==
  {Input(<<W("git"), <<W("status")>> >>, w, PageOk) : w \in (RelativeCwds \cup ({ AbsPath(<<<<"etc">>>>), AbsPath(SandboxRoot \o <<<<"src">>>>) }))}
    \cup {Input(c, w, pg) : c \in { <<W("git"), <<W("push"), W("origin"), W("main")>> >>, <<BASH, <<DASH_C>> >> }, w \in { Rel(<<<<"src">>>>), Rel(<<DOTDOT, <<"proj", "-f">>>>), AbsPath(<<<<"etc">>>>) }, pg \in {PageOk, NoPage}}

(* requests that vary the command *)
CommandRequests ==
  {Input(c, w, PageOk) : c \in (DirectCommands \cup WrapperCommands), w \in {Rel(<<<<".">>>>), Rel(<<<<"missing">>>>)}}
    \cup {Input(c, CwdAbsent, pg) : c \in { <<W("git"), <<W("push"), W("origin"), W("main")>> >>, <<BASH, <<DASH_C>> >> } \cup {<<W("git"), <<W("status")>> >>},
                                    pg \in Pages}

(* ---------------------------------------------------------------------- *)
(* The environment: what `git worktree list --porcelain` prints            *)
(* ---------------------------------------------------------------------- *)
Entry(p) == <<[tag |-> "worktree", val |-> p], [tag |-> "HEAD", val |-> <<"abc123">>], [tag |-> "branch", val |-> <<"refs/heads/x">>], [tag |-> "", val |-> <<>>]>>

(* the repository's main worktree is the parent directory of the sandbox   *)

GitOutcomes == {[failed |-> TRUE, out |-> <<>>], [failed |-> FALSE, out |-> Entry(SandboxRoot)], ([failed |-> FALSE, out |-> Entry(SandboxRoot) \o Entry(<<<<"u">>, <<"proj", "-f">>>>)]), ([failed |-> FALSE, out |-> Entry(<<<<"u">>>>) \o Entry(SandboxRoot)])}

(* ---------------------------------------------------------------------- *)
(* State                                                                   *)
(* ---------------------------------------------------------------------- *)
VARIABLES
  policy,               \* the Policy object (lib/policy: type Policy)
  globalWorktreeCache,  \* lib/worktree: globalWorktreeCache
  now,                  \* Date.now(), in ms
  git,                  \* what `git worktree list` would print now
  gitSeen,              \* paths git worktree list has returned to the server
  gitCalled,            \* whether git was ever invoked
  last,                 \* the last request and what the handler did with it
  files,                \* the spill files in ~/.shemcp/tmp
  uuids,                \* how many spill-file ids have named a file so far
  session               \* the caller: its last call, the reply, the calls of its loop

vars == <<policy, globalWorktreeCache, now, git, gitSeen, gitCalled, last, files, uuids,
          session>>

TickMs == 30000
MaxTicks == 2

DefaultRules ==
  [deny |-> <<RX_PUSH_MAIN, RX_BARE_PUSH>>,
   allow |-> <<"^git(\\s|$)", "^bash\\s+-lc\\s+">>,
   envWhitelist |-> <<W("PATH"), W("HOME"), W("LANG"), W("LC_ALL")>>]

CustomRules ==
  [deny |-> <<"main", RX_PUSH_MAIN>>,
   allow |-> <<"^echo(\\s|$)", "git">>,
   envWhitelist |-> <<W("PATH")>>]

(* createPolicyFromConfig *)
createPolicyFromConfig(rules, detection) ==
  [deny |-> rules.deny,
   allow |-> rules.allow,
   envWhitelist |-> rules.envWhitelist,
   allowedWorktrees |-> {},
   rootDirectory |-> SandboxRoot,
   worktreeDetectionEnabled |-> detection,
   timeoutMs |-> 60 * 1000,
   maxBytes |-> 2000000]


Silent == Program(1, 0, <<>>, 0)

(* the same output from a child that ends another way                     *)
Ends(prog, kind, code, at) == [prog EXCEPT !.ending = [kind |-> kind, code |-> code, at |-> at]]

(* ASCII, 30 lines of 100 bytes, and some stderr *)
P_SMALL == Program(1, 100, <<3000>>, 500)
(* 30000 two-byte characters *)
P_WIDE == Program(2, 0, <<60000>>, 0)

At(offset) == Cursor("bytes", Num(offset))

PageInput(page, maxOutputBytes, onLargeOutput) ==
  InputFull(<<W("git"), <<W("status")>> >>, CwdAbsent, page, maxOutputBytes, onLargeOutput)

MaxSpills == 2

NoSession ==
  [prog |-> Silent,
   id |-> 0,
   tool |-> "none",
   spilled |-> {},
   exec |-> Input(<<W("git"), <<>> >>, CwdAbsent, NoPage),
   read |-> ReadInput(NoName, NoCursor, Absent),
   calls |-> 0,
   chain |-> FALSE,
   resp |-> NoReply,
   info |-> [deny |-> <<>>, allow |-> <<>>, sandbox_root |-> <<>>]]

NoRequest ==
  [out |-> Outcome("none", FALSE, FALSE, <<>>, <<>>, FALSE, NoCwd, NoStrip,
                   NotWrapper(<<>>), FALSE, <<>>, NoPolicyCheck, NoChild),
   input |-> Input(<<W("git"), <<>> >>, CwdAbsent, NoPage),
   handled |-> FALSE]

Init ==
  /\ policy \in {createPolicyFromConfig(r, d) : r \in {DefaultRules, CustomRules},
                                                 d \in BOOLEAN}
  /\ globalWorktreeCache = NoCache
  /\ now = 0
  /\ git \in GitOutcomes
  /\ gitSeen = {}
  /\ gitCalled = FALSE
  /\ last = NoRequest
  /\ files = {}
  /\ uuids = 0
  /\ session = NoSession

(* time passes *)
Tick ==
  /\ now < MaxTicks * TickMs
  /\ now' = now + TickMs
  /\ UNCHANGED <<policy, globalWorktreeCache, git, gitSeen, gitCalled, last, files, uuids,
                  session>>

(* somebody adds or removes a worktree, or the repository breaks *)
GitChange ==
  /\ git' \in GitOutcomes \ {git}
  /\ UNCHANGED <<policy, globalWorktreeCache, now, gitSeen, gitCalled, last, files, uuids,
                  session>>


(* one shell_exec tool call whose child, if one is spawned, behaves as     *)
(* prog; calls and chain are the caller's bookkeeping of its cursor loop   *)
ShellExecOf(input, prog, calls, chain) ==
  \E out \in {handleShellExec(input, policy, globalWorktreeCache, now, git)} :
   \E result \in (IF out.child.spawned THEN Exit(prog.ending, out.child.timeoutMs)
                  ELSE {[code |-> Absent, signal |-> "null", killed |-> FALSE,
                         threw |-> FALSE]}) :
   \E r \in {ShellExecResponse(out, input, prog, uuids + 1, result)} :
     /\ r.files = {} \/ uuids < MaxSpills
     /\ files' = files \cup r.files
     /\ uuids' = IF r.files = {} THEN uuids ELSE uuids + 1
     /\ session' = [prog |-> prog,
                    id |-> uuids + 1,
                    tool |-> "shell_exec",
                    spilled |-> r.spilled,
                    exec |-> input,
                    read |-> ReadInput(NoName, NoCursor, Absent),
                    calls |-> calls,
                    chain |-> chain,
                    resp |-> r.reply,
                    info |-> NoSession.info]
     /\ policy' = IF out.cwdChecked
                  THEN [policy EXCEPT !.allowedWorktrees = out.cwd.allowedWorktrees]
                  ELSE policy
     /\ globalWorktreeCache' = IF out.cwdChecked THEN out.cwd.cache ELSE globalWorktreeCache
     /\ gitSeen' = IF out.cwdChecked /\ out.cwd.gitInvoked
                   THEN gitSeen \cup ({out.cwd.cache.worktrees[i].path : i \in 1..Len(out.cwd.cache.worktrees)})
                   ELSE gitSeen
     /\ gitCalled' = (gitCalled \/ (out.cwdChecked /\ out.cwd.gitInvoked))
     /\ last' = [out |-> out, input |-> input, handled |-> TRUE]
     /\ UNCHANGED <<now, git>>

(* a shell_exec call for a command that prints nothing *)
ShellExec(input) == ShellExecOf(input, Silent, 1, FALSE)

(* the caller re-issues its request with the next_cursor it was given      *)
FollowCursor ==
  /\ session.tool = "shell_exec"
  /\ session.resp.next_cursor.present
  /\ ShellExecOf([session.exec EXCEPT
                    !.page.cursor = Cursor("bytes", Num(session.resp.next_cursor.offset))],
                 session.prog, session.calls + 1, session.chain)

(* the read_file_chunk calls a caller can make now *)
ReadRequests ==
  {ReadInput(u, c, Absent) :
     u \in {f.name : f \in files} \cup {SpillName(MaxSpills + 1, "out")},
     c \in {NoCursor} \cup (IF session.resp.next_cursor.present
                            THEN {Cursor("bytes", Num(session.resp.next_cursor.offset))}
                            ELSE {})}
    \cup {ReadInput(u, NoCursor, l) :
            u \in {f.name : f \in files} \cup {SpillName(MaxSpills + 1, "out")},
            l \in {Num(-5), Num(0), Num(39999), Num(40001)}}

(* one read_file_chunk tool call; prog is what wrote the file it names,   *)
(* calls and chain are the caller's bookkeeping of its cursor loop         *)
ReadFileChunkOf(req, calls, chain) ==
  /\ session' = [NoSession EXCEPT
                   !.tool = "read_file_chunk", !.read = req, !.calls = calls,
                   !.chain = chain,
                   !.prog = IF \E f \in files : f.name = req.uri
                            THEN (CHOOSE f \in files : f.name = req.uri).prog ELSE Silent,
                   !.resp = handleReadFileChunk(req, files)]
  /\ UNCHANGED <<policy, globalWorktreeCache, now, git, gitSeen, gitCalled, last, files,
                  uuids>>

(* a read_file_chunk call that starts a walk when it has no cursor *)
ReadFileChunk(req) == ReadFileChunkOf(req, 1, ~req.cursor.present)

(* the caller re-issues its read with the next_cursor it was given         *)
FollowRead ==
  /\ session.tool = "read_file_chunk"
  /\ session.resp.next_cursor.present
  /\ ReadFileChunkOf([session.read EXCEPT
                        !.cursor = Cursor("bytes", Num(session.resp.next_cursor.offset))],
                     session.calls + 1, session.chain)

(* handlers/shell-info: handleShellInfo                                   *)
handleShellInfo(pol) ==
  [deny |-> pol.deny, allow |-> pol.allow, sandbox_root |-> resolve(pol.rootDirectory, <<>>)]

(* variant: shell_info moves the sandbox root to the directory above       *)
ShellInfoSetsRoot ==
  /\ session' = [NoSession EXCEPT !.tool = "shell_info", !.info = handleShellInfo(policy)]
  /\ policy' = [policy EXCEPT !.rootDirectory = Parent(policy.rootDirectory)]
  /\ UNCHANGED <<globalWorktreeCache, now, git, gitSeen, gitCalled, last, files, uuids>>

(* one shell_info tool call *)
ShellInfo ==
  /\ session' = [NoSession EXCEPT !.tool = "shell_info", !.info = handleShellInfo(policy)]
  /\ UNCHANGED <<policy, globalWorktreeCache, now, git, gitSeen, gitCalled, last, files,
                  uuids>>

Next ==
  \/ Tick
  \/ GitChange
  \/ \E input \in Requests : ShellExec(input)

Spec == Init /\ [][Next]_vars

(* the three tools of the server, on a repository that changes            *)
NextTools ==
  \/ GitChange
  \/ \E w \in {CwdAbsent, Rel(<<<<"src">>>>), Rel(<<DOTDOT, <<"proj", "-f">>>>),
                Rel(<<DOTDOT, <<"proj", "2">>>>), AbsPath(<<<<"etc">>>>)} :
        ShellExec(Input(<<W("git"), <<W("status")>> >>, w, PageOk))
  \/ ShellInfo
  \/ \E req \in ReadRequests : ReadFileChunk(req)
  \/ \E d \in {<<DOTDOT, DOTDOT, DOTDOT, DOTDOT, <<"etc">>>>, <<DOTDOT, <<"tmp">>>>,
                 <<DOTDOT>>},
        n \in {[id |-> 0, ext |-> "passwd"], [id |-> 1, ext |-> "out"]},
        l \in {Absent, Num(1000)} :
        ReadFileChunk(ReadInput([id |-> n.id, ext |-> n.ext, dir |-> d], NoCursor, l))

SpecTools == Init /\ [][NextTools]_vars

(* a quiet repository under the least, the default and the greatest       *)
(* ceilings the configuration allows (timeout_seconds, max_output_bytes),  *)
(* serving calls that vary the limits and the child                       *)
InitChild ==
  /\ policy \in {[createPolicyFromConfig(DefaultRules, FALSE)
                    EXCEPT !.timeoutMs = c[1] * 1000, !.maxBytes = c[2]] :
                  c \in {<<1, 1000>>, <<60, 2000000>>, <<300, 10000000>>}}
  /\ globalWorktreeCache = NoCache
  /\ now = 0
  /\ git = [failed |-> TRUE, out |-> <<>>]
  /\ gitSeen = {}
  /\ gitCalled = FALSE
  /\ last = NoRequest
  /\ files = {}
  /\ uuids = 0
  /\ session = NoSession

(* the same child with other reads of its stderr pipe                     *)
ErrChunks(prog, chunks) == [prog EXCEPT !.stderrChunks = chunks, !.stderrBytes = SumSeq(chunks)]

(* the same child whose last n stdout reads come after its 'exit' event   *)
Late(prog, n) == [prog EXCEPT !.late = n]

(* calls that vary how the output arrives: the sizes of the pipe reads of  *)
(* both streams and the reads that come after the 'exit' event; fewer      *)
(* programs in spill mode, where a call can leave a file behind            *)
NextStream ==
  \/ \E l \in {Absent, Num(100), Num(600)},
        p \in {Program(1, 0, <<800, 500, 100>>, 0),
               ErrChunks(Program(1, 100, <<3000>>, 0), <<600, 600, 600>>),
               Program(1, 0, <<65536, 34464>>, 0),
               Late(Program(1, 0, <<2000, 1000>>, 0), 1),
               Late(Program(1, 0, <<800, 500, 100>>, 0), 2),
               ErrChunks(Silent, <<65536>>),
               P_WIDE} :
        ShellExecOf(PageInput(Page(At(0), l), Absent, "truncate"), p, 1, FALSE)
  \/ \E l \in {Absent, Num(100)},
        p \in {Program(1, 0, <<800, 500, 100>>, 0),
               ErrChunks(Program(1, 100, <<3000>>, 0), <<600, 600, 600>>),
               Late(Program(1, 0, <<2000, 1000>>, 0), 1),
               P_WIDE} :
        ShellExecOf(PageInput(Page(At(0), l), Absent, "spill"), p, 1, FALSE)

SpecStream == InitChild /\ [][NextStream]_vars

(* calls that vary the requested limits and how the child ends; in spill  *)
(* mode the output fits one page, so that no file outlives its call        *)
NextChild ==
  \E call \in
  ({<<PageInput(Page(At(0), Absent), Absent, m), Ends(p, k, 3, at)>> :
     m \in {"spill", "truncate", "error"}, k \in {"exit", "hang", "error"},
     p \in {Silent, P_SMALL}, at \in {0, 999, 1000, 60001}}
    \cup {<<PageInput(Page(At(0), Absent), Absent, m), Ends(P_SMALL, "pipe_error", 3, at)>> :
            m \in {"truncate", "error"}, at \in {0, 999, 1000, 60001}}
    \cup {<<PageInput(Page(At(0), Absent), Absent, m), Ends(P_WIDE, k, 0, 500)>> :
            m \in {"truncate", "error"}, k \in {"exit", "hang", "error", "pipe_error"}}
    \cup {<<[PageInput(Page(At(0), Absent), Absent, "spill")
               EXCEPT !.timeout_seconds = sec, !.timeout_ms = ms],
            Ends(P_SMALL, "exit", 0, 1500)>> :
            sec \in {Absent, Num(-5), Num(0), NumHalf(0), Num(1), NumHalf(1), Num(60),
                     Num(300), Num(301)},
            ms \in {Absent, Num(-1), NumHalf(0), Num(1), NumHalf(1), NumHalf(999),
                    Num(2000), Num(300001)}}
    \cup {<<PageInput(Page(At(0), Absent), mx, "spill"), P_SMALL>> :
            mx \in {Num(-1), NumHalf(999), Num(1000), NumHalf(1999), Num(2000001),
                    Num(10000001)}}) :
    ShellExecOf(call[1], call[2], 1, FALSE)

SpecChild == InitChild /\ [][NextChild]_vars

(* the same server on a quiet repository, serving requests that vary the   *)
(* command line                                                            *)
InitCommands ==
  /\ policy \in {createPolicyFromConfig(r, TRUE) : r \in {DefaultRules, CustomRules}}
  /\ globalWorktreeCache = NoCache
  /\ now = 0
  /\ git = [failed |-> FALSE, out |-> Entry(SandboxRoot)]
  /\ gitSeen = {}
  /\ gitCalled = FALSE
  /\ last = NoRequest
  /\ files = {}
  /\ uuids = 0
  /\ session = NoSession

NextCommands == \E input \in CommandRequests : ShellExec(input)

SpecCommands == InitCommands /\ [][NextCommands]_vars

(* the same server and a caller that pages through the output of commands *)
InitPages ==
  /\ policy = createPolicyFromConfig(DefaultRules, TRUE)
  /\ globalWorktreeCache = NoCache
  /\ now = 0
  /\ git = [failed |-> FALSE, out |-> Entry(SandboxRoot)]
  /\ gitSeen = {}
  /\ gitCalled = FALSE
  /\ last = NoRequest
  /\ files = {}
  /\ uuids = 0
  /\ session = NoSession


(* calls that vary the page, the large-output mode and what the child     *)
(* prints: <<request, program>>                                            *)
NextPages ==
  \/ \E c \in
        ({<<PageInput(Page(At(o), Absent), Absent, m), Program(1, 0, <<65536, 34464>>, 0)>> :
           o \in {0, 40000, 80000, 120000}, m \in {"spill", "truncate", "error"}}
          \cup {<<PageInput(Page(At(0), Absent), Absent, m), P_SMALL>> :
                  m \in {"spill", "truncate", "error"}}
          \cup {<<PageInput(Page(At(120000), Absent), Absent, "spill"), P_SMALL>>,
                <<PageInput(Page(At(0), Absent), Absent, "spill"), Program(1, 2, <<6000>>, 0)>>,
                <<PageInput(Page(At(0), Absent), Absent, "truncate"), Program(1, 2, <<6000>>, 0)>>,
                <<PageInput(PageLines(At(0), Absent, Num(10)), Absent, "spill"), P_SMALL>>,
                <<PageInput(Page(At(0), Absent), Absent, "spill"), P_WIDE>>,
                <<PageInput(Page(At(0), Num(39999)), Absent, "spill"), P_WIDE>>,
                <<PageInput(Page(At(39999), Num(39999)), Absent, "spill"), P_WIDE>>,
                <<PageInput(Page(At(0), Absent), Absent, "spill"), Silent>>,
                <<PageInput(Page(NoCursor, Absent), Absent, "spill"), P_SMALL>>,
                <<PageInput(NoPage, Absent, "spill"), P_SMALL>>,
                <<PageInput(Page(At(0), Num(40001)), Absent, "spill"), P_SMALL>>,
                <<PageInput(Page(At(0), Num(0)), Absent, "spill"), P_SMALL>>,
                <<PageInput(Page(At(0), Num(-5)), Absent, "spill"), P_SMALL>>}
          \cup {<<PageInput(Page(At(o), Num(100)), Num(1000), m), Program(1, 0, <<800, 500, 100>>, 0)>> :
                  o \in {0, 800}, m \in {"spill", "truncate"}}) :
          ShellExecOf(c[1], c[2], 1, (c[1].on_large_output = "spill" /\ StartOffset(c[1].page) = 0))
  \/ FollowCursor
  \/ \E req \in ReadRequests : ReadFileChunk(req)
  \/ FollowRead

SpecPages == InitPages /\ [][NextPages]_vars

(* the cursors a caller can send: every cursor_type with every kind of     *)
(* offset, no cursor at all, and a string in place of the object           *)
Cursors ==
  {Cursor(t, o) :
     t \in {"", "bytes", "lines"},
     o \in {Absent, NotANumber("null"), Num(-1), NumHalf(-1), Num(0), NumHalf(0), Num(1),
            Num(40000), NumHalf(40000), Num(100000), NumHalf(100000), Str(12), Str(-3),
            NotANumber("text"), NotANumber("Infinity"), NotANumber("-Infinity")}}
    \cup {NoCursor, [present |-> TRUE, object |-> FALSE, cursor_type |-> "", offset |-> Absent]}

(* one execution leaves a spill file of 100000 bytes; both tools are then  *)
(* called with every cursor                                                *)
NextCursors ==
  \/ ShellExecOf(PageInput(Page(At(0), Absent), Absent, "spill"),
                 Program(1, 0, <<65536, 34464>>, 0), 1, TRUE)
  \/ \E c \in Cursors : ShellExec(PageInput(Page(c, Absent), Absent, "spill"))
  \/ \E c \in Cursors, u \in {f.name : f \in files} : ReadFileChunk(ReadInput(u, c, Absent))

SpecCursors == InitPages /\ [][NextCursors]_vars

(* ---------------------------------------------------------------------- *)
(* Properties                                                              *)
(* ---------------------------------------------------------------------- *)
out == last.out
input == last.input

DenyMatches(full, pol) == {i \in 1..Len(pol.deny) : RegexTest(pol.deny[i], full)}
AllowMatches(full, pol) == {i \in 1..Len(pol.allow) : RegexTest(pol.allow[i], full)}

\* C1: deny over allow.  Whenever the policy was checked on a line that some
\* deny regex matches, the result is a denial with reason "Command matches
\* deny rule" and a matching deny source as matched rule, whether or not an
\* allow regex matches the line too.
C1_DenyOverAllow ==
  (last.handled /\ out.policyChecked
     /\ DenyMatches(out.fullCommandForPolicy, policy) # {})
  => /\ out.policyCheck.allowed = FALSE
     /\ out.policyCheck.reason = "Command matches deny rule"
     /\ out.policyCheck.ruleType = "deny"
     /\ \E i \in DenyMatches(out.fullCommandForPolicy, policy) :
          out.policyCheck.matchedRule = policy.deny[i]
     /\ out.response.kind = "denied"

C1_Witness ==
  /\ last.handled /\ out.policyChecked
  /\ DenyMatches(out.fullCommandForPolicy, policy) # {}
  /\ AllowMatches(out.fullCommandForPolicy, policy) # {}
  /\ out.response.kind = "denied"

(* the policy decision the handler takes when the tokens are sent as a     *)
(* request of their own (cmd = first token, args = the rest)               *)
DirectAllowed(tokens, pol) ==
  LET stripped == StripEnvPrefix(tokens[1], Tail(tokens))
      wrapperInfo == parseShellWrapper(stripped.cmd, stripped.args)
  IN /\ stripped.ok
     /\ wrapperInfo.ok
     /\ checkCommandPolicy(FullCommandForPolicy(wrapperInfo, stripped), pol).allowed

\* C2: a command line that the policy denies when it is issued directly is
\* denied as well when it is the -c string of a bash/sh wrapper, and no child
\* is spawned for it.
C2_WrappedDeniedLikeDirect ==
  (last.handled /\ out.isWrapper /\ out.policyChecked
     /\ ~DirectAllowed(parseShellCommand(out.commandString), policy))
  => (out.response.kind = "denied" /\ ~out.child.spawned)

Real(p) == realpathSync(p).path

\* C3: every cwd the validator accepted, and so every directory a child is
\* spawned in, resolves (through symlinks) to a path inside the resolved
\* sandbox root or inside the resolved path of an allowlist entry.
C3_AcceptedCwdInsideSandbox ==
  /\ (last.handled /\ out.cwdChecked /\ out.cwd.ok)
     => /\ realpathSync(out.resolvedCwd).ok
        /\ \/ StartsWith(Real(out.resolvedCwd), Real(policy.rootDirectory))
           \/ \E w \in policy.allowedWorktrees :
                realpathSync(w).ok /\ StartsWith(Real(out.resolvedCwd), Real(w))
  /\ (last.handled /\ out.child.spawned)
     => (out.cwdChecked /\ out.cwd.ok /\ out.child.cwd = out.resolvedCwd)

C3_Witness ==
  /\ last.handled /\ out.child.spawned
  /\ ~WithinLexical(out.resolvedCwd, policy.rootDirectory)

WrapperFails(req) ==
  LET stripped == StripEnvPrefix(req.cmd, req.args)
  IN stripped.ok /\ ~parseShellWrapper(stripped.cmd, stripped.args).ok

PolicyDenies(req, pol) ==
  LET stripped == StripEnvPrefix(req.cmd, req.args)
      wrapperInfo == parseShellWrapper(stripped.cmd, stripped.args)
  IN /\ stripped.ok
     /\ wrapperInfo.ok
     /\ ~checkCommandPolicy(FullCommandForPolicy(wrapperInfo, stripped), pol).allowed

\* C4: when the policy denies the request's command, the wrapper parser fails
\* on it, or the cwd validator rejects its cwd, no child is spawned.
C4_FailuresAbortBeforeSpawn ==
  (last.handled
     /\ \/ WrapperFails(input)
        \/ PolicyDenies(input, policy)
        \/ (out.cwdChecked /\ ~out.cwd.ok))
  => (~out.child.spawned /\ out.response.isError)

C4_Witness ==
  /\ last.handled /\ out.cwdChecked /\ out.cwd.ok
  /\ PolicyDenies(input, policy)
  /\ ~out.child.spawned

RECURSIVE Ancestors(_)
Ancestors(p) == IF p = <<>> THEN {<<>>} ELSE {p} \cup Ancestors(Parent(p))

SiblingWorktree(d) ==
  /\ Parent(d) = Parent(policy.rootDirectory)
  /\ StartsWith(Basename(d), Basename(policy.rootDirectory))
  /\ d \in gitSeen

\* C5: a cwd outside the sandbox root is accepted only if it is, or lies
\* inside, a sibling of the sandbox root whose basename begins with the
\* sandbox basename and which git worktree list reported; and every root in
\* the allowlist is such a directory.
C5_OnlySiblingWorktrees ==
  /\ (last.handled /\ out.cwdChecked /\ out.cwd.ok
        /\ ~WithinLexical(out.resolvedCwd, policy.rootDirectory))
     => \E d \in Ancestors(out.resolvedCwd) : SiblingWorktree(d)
  /\ \A w \in policy.allowedWorktrees : SiblingWorktree(w)

\* C6: the allowlist changes only by a request whose worktree validation
\* succeeded, which adds the root that validation returned, and every entry
\* is a path that git worktree list returned to the server.
C6_AllowlistOnlyVerified ==
  [][/\ policy'.allowedWorktrees \subseteq gitSeen'
     /\ (policy'.allowedWorktrees # policy.allowedWorktrees)
        => /\ last'.out.cwdChecked
           /\ last'.out.cwd.inserted.found
           /\ policy'.allowedWorktrees
                = policy.allowedWorktrees \cup {last'.out.cwd.inserted.root}]_vars

C6_Witness ==
  /\ policy.allowedWorktrees # {}
  /\ last.handled /\ out.cwdChecked /\ out.cwd.inserted.found

(* the directory a request asks for, resolved against the sandbox root     *)
RequestedDir(req) ==
  IF req.cwd.present /\ req.cwd.abs THEN req.cwd.segs
  ELSE resolve(policy.rootDirectory, req.cwd.segs)

\* C7: with worktree detection disabled every request for a cwd outside the
\* sandbox root is rejected, the allowlist stays empty and git is never run.
C7_DetectionDisabled ==
  ~policy.worktreeDetectionEnabled
  => /\ policy.allowedWorktrees = {}
     /\ ~gitCalled
     /\ (last.handled /\ ~WithinLexical(RequestedDir(input), policy.rootDirectory))
        => (out.response.isError /\ ~out.child.spawned)

C7_Witness ==
  /\ ~policy.worktreeDetectionEnabled
  /\ git = ([failed |-> FALSE, out |-> Entry(SandboxRoot) \o Entry(<<<<"u">>, <<"proj", "-f">>>>)])
  /\ last.handled /\ out.cwdChecked
  /\ out.resolvedCwd = <<<<"u">>, <<"proj", "-f">>>>
  /\ out.response.kind = "cwd_error"

\* C8: the environment of every spawned child is exactly the whitelisted
\* part of the server's environment plus the KEY=value pairs stripped from
\* the front of the request.
C8_ChildEnvExact ==
  (last.handled /\ out.child.spawned)
  => out.child.env = MergeEnv(filteredEnv(policy), parseEnvVars(out.envVars))

\* C9: default deny.  A checked line that no deny and no allow regex matches
\* is denied with reason "Command does not match any allow rule" and no
\* matched rule; a line is allowed only if an allow regex matches it.
C9_DefaultDeny ==
  (last.handled /\ out.policyChecked)
  => /\ (DenyMatches(out.fullCommandForPolicy, policy) = {}
           /\ AllowMatches(out.fullCommandForPolicy, policy) = {})
        => /\ out.policyCheck.allowed = FALSE
           /\ out.policyCheck.reason = "Command does not match any allow rule"
           /\ out.policyCheck.matchedRule = None
           /\ out.policyCheck.ruleType = None
           /\ ~out.child.spawned
     /\ out.policyCheck.allowed
        => AllowMatches(out.fullCommandForPolicy, policy) # {}

C9_Witness ==
  /\ last.handled /\ out.policyChecked
  /\ DenyMatches(out.fullCommandForPolicy, policy) = {}
  /\ AllowMatches(out.fullCommandForPolicy, policy) = {}
  /\ out.response.kind = "denied"

AbsoluteCwdRejected ==
  /\ out.response.kind = "abs_cwd"
  /\ out.response.isError
  /\ out.response.text[2] = input.cwd
  /\ out.response.text[4] = policy.rootDirectory
  /\ ~out.cwdChecked
  /\ ~out.child.spawned

reply == session.resp

TotalStdout == StdoutBytes(session.prog)

(* the caller's last call was a shell_exec that returned a result          *)
ExecReplied == session.tool = "shell_exec" /\ reply.executed /\ ~reply.isError

MoreRemains == reply.bytes_end < TotalStdout

C12_NextCursorContinuesPage ==
  (ExecReplied /\ reply.next_cursor.present)
  => /\ reply.next_cursor.offset
          = StartOffset(session.exec.page)
              + byteLength(reply.stdout_chunk, session.prog.width)
     /\ reply.next_cursor.offset = reply.bytes_end

C12_Witness ==
  /\ ExecReplied /\ reply.next_cursor.present
  /\ StartOffset(session.exec.page) > 0
  /\ reply.stdout_chunk # <<>>

\* C13: a shell_exec response without next_cursor has bytes_end equal to the
\* total number of stdout bytes of the execution.  It is stated here for the
\* responses that are not marked truncated: a truncated response leaves
\* next_cursor out by design and says so with its truncated flag.
C13_NoCursorMeansEnd ==
  (ExecReplied /\ ~reply.next_cursor.present /\ ~reply.truncated)
  => reply.bytes_end = TotalStdout

\* C14: in every shell_exec response bytes_start is the request's cursor
\* offset, bytes_end = min(bytes_start + limit_bytes, total stdout bytes),
\* and bytes_start <= bytes_end <= total stdout bytes.
C14_PageBounds ==
  ExecReplied
  => /\ reply.bytes_start = StartOffset(session.exec.page)
     /\ reply.bytes_end
          = Min(reply.bytes_start + LimitBytes(session.exec.page), TotalStdout)
     /\ reply.bytes_start <= reply.bytes_end
     /\ reply.bytes_end <= TotalStdout

\* C15: in every shell_exec response stdout_chunk is exactly the bytes
\* [bytes_start, bytes_end) of the execution's stdout, in order and intact,
\* and it is empty when those bytes are not available.
C15_ChunkIsStreamRange ==
  ExecReplied
  => /\ reply.stdout_chunk
          = (IF reply.bytes_start < reply.bytes_end
             THEN <<Seg(reply.bytes_start, reply.bytes_end)>> ELSE <<>>)
     /\ byteLength(reply.stdout_chunk, session.prog.width) = BufLength(reply.stdout_chunk)

CeilDiv(n, d) == (n + d - 1) \div d

\* C16: a caller that starts at offset 0 in spill mode with a fixed
\* limit_bytes L and follows every next_cursor of a command that writes the
\* same N bytes each run makes at most ceil(N / L) calls, and the response
\* without next_cursor has bytes_end = N.
C16_PaginationTerminates ==
  (ExecReplied /\ session.chain)
  => LET calls == Max(1, CeilDiv(TotalStdout, LimitBytes(session.exec.page)))
     IN /\ session.calls <= calls
        /\ session.calls = calls => ~reply.next_cursor.present
        /\ ~reply.next_cursor.present => reply.bytes_end = TotalStdout

\* C17: the stdout_chunk of a shell_exec response never has more than
\* limit_lines lines (2000 by default) nor more than limit_bytes bytes.
C17_PageWithinLimits ==
  ExecReplied
  => /\ reply.line_count <= LimitLines(session.exec.page)
     /\ byteLength(reply.stdout_chunk, session.prog.width)
          <= LimitBytes(session.exec.page)

C20_ReadToEndDeletes ==
  (session.tool = "read_file_chunk" /\ ~reply.isError /\ ~reply.next_cursor.present
     /\ reply.bytes_end = reply.total_bytes)
  => \A f \in files : f.name.id # session.read.uri.id

(* how the child of the caller's last shell_exec call ends, and the       *)
(* timeout the handler armed for it                                       *)
ending == session.prog.ending

armed == last.out.child.timeoutMs

StillRunning == ending.kind = "hang" \/ ending.at > armed

\* C21 as stated: when the child is still running at the effective timeout
\* the timer kills it and the call completes with a response whose signal is
\* truthy and whose exit_code is not 0; a child that ended before the timer
\* fired is never signalled.  (A pipe error the server did not survive is
\* left to C22.)
C21_TimeoutKillsAlwaysAnswers ==
  (session.tool = "shell_exec" /\ reply.executed)
  => /\ (StillRunning /\ ending.kind # "pipe_error") => reply.killed
     /\ reply.killed
          => ~reply.isError /\ reply.signal # "null" /\ reply.exit_code # 0
     /\ (~StillRunning /\ ending.at < armed) => ~reply.killed

\* C21 as amended: the same, except that in error mode a killed child whose
\* output is over the page limits makes the call fail with the
\* output-too-large error instead of a response.
C21_TimeoutKills ==
  (session.tool = "shell_exec" /\ reply.executed)
  => /\ (StillRunning /\ ending.kind # "pipe_error") => reply.killed
     /\ reply.killed
          => IF reply.isError
             THEN /\ reply.thrown
                  /\ session.exec.on_large_output = "error"
                  /\ TotalStdout > LimitBytes(session.exec.page)
             ELSE reply.signal # "null" /\ reply.exit_code # 0
     /\ (~StillRunning /\ ending.at < armed) => ~reply.killed

C21_Witness ==
  /\ session.tool = "shell_exec" /\ reply.executed /\ ~reply.isError
  /\ StillRunning /\ reply.killed /\ reply.signal = "SIGKILL" /\ reply.exit_code = -1
  /\ TotalStdout > 0

\* C22: on a process error (the child could not be spawned, or an I/O error
\* on its pipes) that comes before the timeout, the call completes normally
\* with exit_code -1, signal null and the captured output; the failure is
\* not surfaced as an exception.  Stated for the spill and truncate modes,
\* where no amount of output fails a call.
C22_ProcessErrorIsResult ==
  (session.tool = "shell_exec" /\ reply.executed
     /\ ending.kind \in {"error", "pipe_error"} /\ ending.at < armed
     /\ session.exec.on_large_output # "error")
  => /\ ~reply.isError /\ ~reply.thrown
     /\ reply.exit_code = -1 /\ reply.signal = "null"
     /\ reply.total_bytes = TotalStdout + session.prog.stderrBytes
     /\ BufLength(reply.stdout_chunk) = Min(TotalStdout, LimitBytes(session.exec.page))

\* C23: for every request value of timeout_seconds, timeout_ms and
\* max_output_bytes (out of range, fractional, absent) the effective timeout
\* is at most the policy's timeout and the effective output cap at most the
\* policy's cap, these are the limits the child is run under, and
\* timeout_seconds decides the timeout when both timeouts are given.
C23_EffectiveLimitsWithinPolicy ==
  last.out.child.spawned
  => LET l == getEffectiveLimits(last.input, policy)
     IN /\ l.effectiveTimeoutMs < policy.timeoutMs
             \/ (l.effectiveTimeoutMs = policy.timeoutMs /\ ~l.effectiveTimeoutHalf)
        /\ l.effectiveMaxBytes <= policy.maxBytes
        /\ last.out.child.timeoutMs = l.effectiveTimeoutMs
        /\ last.out.child.maxBytes = l.effectiveMaxBytes
        /\ last.input.timeout_seconds.present
             => l = getEffectiveLimits([last.input EXCEPT !.timeout_ms = Absent], policy)

C23_Witness ==
  /\ last.out.child.spawned
  /\ last.input.timeout_seconds.present /\ last.input.timeout_ms.present
  /\ last.input.timeout_seconds.val * 1000 > policy.timeoutMs
  /\ last.input.timeout_ms.half
  /\ last.out.child.timeoutMs = policy.timeoutMs

\* C24: once the root of a sibling worktree that git reported is in the
\* session allowlist, a request whose
\* cwd lies within that worktree, exists, and resolves (through any
\* symlinks) to a place inside the worktree is accepted, and git is not
\* invoked again.
C24_AllowlistedWorktreeAccepted ==
  [][\A wt \in policy.allowedWorktrees :
       (/\ SiblingWorktree(wt)
        /\ last' # last /\ last'.handled /\ last'.out.cwdChecked
        /\ ~WithinLexical(last'.out.resolvedCwd, policy.rootDirectory)
        /\ last'.out.resolvedCwd = wt \/ StartsWith(last'.out.resolvedCwd, wt)
        /\ realpathSync(last'.out.resolvedCwd).ok
        /\ realpathSync(wt).ok
        /\ StartsWith(realpathSync(last'.out.resolvedCwd).path, realpathSync(wt).path))
       => (last'.out.cwd.ok /\ ~last'.out.cwd.gitInvoked)]_vars

\* C25: the session worktree allowlist only grows: no request, failed
\* request, passing of time (cache expiry) or change of the repository
\* removes an entry.
C25_AllowlistGrows ==
  [][policy.allowedWorktrees \subseteq policy'.allowedWorktrees]_vars

C25_Witness ==
  /\ Cardinality(policy.allowedWorktrees) >= 2
  /\ last.handled /\ out.cwdChecked /\ ~out.cwd.ok
  /\ now >= CACHE_TTL_MS

C27_PageAndCursorMandatory ==
  (last.handled /\ (~input.page.present \/ ~input.page.cursor.present))
  => (out.response.isError /\ ~out.child.spawned)

\* C28: a limit_bytes above 40 000 is rejected by shell_exec without a spawn
\* and clamped by read_file_chunk, which serves the request with at most
\* 40 000 bytes; a limit_bytes of 0 or less is rejected by both.
C28_LimitRejectedOrClamped ==
  /\ (last.handled /\ input.page.present /\ input.page.limit_bytes.present
        /\ (input.page.limit_bytes.val > MAX_PAGE_LIMIT_BYTES
              \/ input.page.limit_bytes.val <= 0))
     => (out.response.isError /\ ~out.child.spawned)
  /\ (session.tool = "read_file_chunk" /\ session.read.limit_bytes.present
        /\ session.read.limit_bytes.val <= 0)
     => reply.isError
  /\ (session.tool = "read_file_chunk" /\ session.read.limit_bytes.present
        /\ session.read.limit_bytes.val > MAX_PAGE_LIMIT_BYTES
        /\ session.read.uri \in {f.name : f \in files})
     => /\ ~reply.isError
        /\ reply.bytes_end - reply.bytes_start <= MAX_PAGE_LIMIT_BYTES
        /\ reply.bytes_end
             = Min(reply.bytes_start + MAX_PAGE_LIMIT_BYTES, reply.total_bytes)

(* the caller's last call was a read_file_chunk of a stdout spill file     *)
(* that returned a chunk                                                   *)
ReadReplied ==
  /\ session.tool = "read_file_chunk" /\ ~reply.isError
  /\ session.read.uri.ext = "out"

ReadLimit == LimitBytes(session.read)

\* C30: a read_file_chunk of a spill file of T bytes at offset o with limit L
\* returns exactly the bytes [o, min(o + L, T)), reports that end as
\* bytes_end, and returns a next_cursor, at bytes_end, exactly when
\* bytes_end < T; a caller that starts at 0 and follows every next_cursor
\* gets the file's bytes once each and in order, in at most ceil(T / L) calls.
C30_ReadWalk ==
  ReadReplied
  => /\ reply.total_bytes = TotalStdout
     /\ reply.bytes_end = Min(reply.bytes_start + ReadLimit, TotalStdout)
     /\ reply.next_cursor.present <=> reply.bytes_end < TotalStdout
     /\ reply.next_cursor.present => reply.next_cursor.offset = reply.bytes_end
     /\ reply.stdout_chunk
          = (IF reply.bytes_start < reply.bytes_end
             THEN <<Seg(reply.bytes_start, reply.bytes_end)>> ELSE <<>>)
     /\ byteLength(reply.stdout_chunk, session.prog.width) = BufLength(reply.stdout_chunk)
     /\ session.chain
         => /\ reply.bytes_start = (session.calls - 1) * ReadLimit
            /\ session.calls <= Max(1, CeilDiv(TotalStdout, ReadLimit))

(* the cursor is an object with cursor_type "bytes" and an offset that is, *)
(* once coerced to a number, a finite non-negative integer (0 when absent) *)
ValidCursor(c) ==
  /\ c.present /\ c.object /\ c.cursor_type = "bytes"
  /\ \/ ~c.offset.present
     \/ c.offset.form = "null"
     \/ c.offset.form \in {"number", "string"} /\ c.offset.val >= 0 /\ ~c.offset.half

\* C29: cursor validation accepts a cursor exactly when it is an object with
\* cursor_type "bytes" and an offset that coerces to a finite non-negative
\* integer: shell_exec spawns for a request with a cursor only if the cursor
\* is valid, and read_file_chunk serves one only if it is.
C29_CursorValidation ==
  /\ (last.handled /\ out.policyChecked /\ out.policyCheck.allowed
        /\ input.page.present /\ input.page.cursor.present)
     => (out.child.spawned <=> ValidCursor(input.page.cursor))
  /\ (session.tool = "read_file_chunk" /\ session.read.cursor.present
        /\ session.read.uri \in {f.name : f \in files})
     => (~reply.isError <=> ValidCursor(session.read.cursor))

(* the index of the first short flag with a c among args, 0 if none        *)
RECURSIVE DashCIndex(_, _)
DashCIndex(args, i) ==
  IF i > Len(args) THEN 0
  ELSE IF StartsWithCh(args[i], "-") /\ ~(Len(args[i]) > 1 /\ args[i][2] = "-")
          /\ Includes(args[i], "c")
  THEN i
  ELSE DashCIndex(args, i + 1)

(* the request is a bash or sh wrapper whose -c argument is empty or has   *)
(* whitespace characters only                                              *)
BlankCommandString(req) ==
  LET stripped == StripEnvPrefix(req.cmd, req.args)
      i == DashCIndex(stripped.args, 1)
  IN /\ stripped.ok
     /\ stripped.cmd \in {BASH, <<"sh">>}
     /\ i > 0 /\ i < Len(stripped.args)
     /\ \A j \in 1..Len(stripped.args[i + 1]) : IsSpace(stripped.args[i + 1][j])

\* C31: for every bash or sh wrapper whose -c argument is empty or only
\* whitespace, the tokenizer yields the empty list, the request is answered
\* with the wrapper parser's "empty command string" and nothing is spawned.
C31_BlankCommandStringRejected ==
  (last.handled /\ out.cwdChecked /\ out.cwd.ok /\ BlankCommandString(input))
  => LET stripped == StripEnvPrefix(input.cmd, input.args)
         cmdStr == stripped.args[DashCIndex(stripped.args, 1) + 1]
     IN /\ parseShellCommand(cmdStr) = <<>>
        /\ out.response.kind = "wrapper_error"
        /\ out.response.text = <<"Error: ", "empty command string">>
        /\ ~out.child.spawned

\* C32: the policy check precedes cwd validation: a request with a page
\* object and a relative (or no) cwd whose command the policy denies is
\* answered with the policy denial whatever its cwd, and its cwd is not
\* validated: git is not invoked and the allowlist is left as it was.
C32_PolicyBeforeCwd ==
  [][(last' # last /\ last'.handled /\ last'.input.page.present
        /\ ~(last'.input.cwd.present /\ last'.input.cwd.abs)
        /\ PolicyDenies(last'.input, policy))
     => /\ last'.out.response.kind = "denied"
        /\ ~last'.out.cwdChecked
        /\ policy'.allowedWorktrees = policy.allowedWorktrees]_vars

(* the tokens that follow the -c command string in the request            *)
TokensAfterCommandString(req) ==
  LET stripped == StripEnvPrefix(req.cmd, req.args)
      i == DashCIndex(stripped.args, 1)
  IN SubSeq(stripped.args, i + 2, Len(stripped.args))

\* C33: in the spawn line of a wrapper request, with any number of leading
\* KEY=value tokens, what follows "-c" and the command string is exactly the
\* tokens that follow the -c command string in the request, in their order.
C33_TrailingArgsShifted ==
  (last.handled /\ out.child.spawned /\ out.isWrapper)
  => LET trailing == TokensAfterCommandString(input)
         n == Len(out.child.args) - Len(trailing)
     IN /\ n >= 2
        /\ SubSeq(out.child.args, n + 1, Len(out.child.args)) = trailing
        /\ out.child.args[n - 1] = <<"-", "c">>
        /\ \E k \in 0..Len(out.child.args[n]) :
              SubSeq(out.child.args[n], k + 1, Len(out.child.args[n])) = out.commandString

C33_Witness ==
  /\ last.handled /\ out.child.spawned /\ out.isWrapper
  /\ Len(out.envVars) = 2
  /\ Len(TokensAfterCommandString(input)) = 3

(* the script after -c in the spawn line of the last request              *)
SpawnedScript ==
  out.child.args[1 + CHOOSE i \in 1..Len(out.child.args) :
                       /\ out.child.args[i] = <<"-", "c">>
                       /\ \A j \in 1..(i - 1) : out.child.args[j] # <<"-", "c">>]

\* C38: for a spawned wrapper request with leading KEY=value tokens, the
\* commands the shell runs for the script after -c are the commands of the
\* policy-checked inner command string, the first of them with the tokens as
\* its assignments: no token adds a command or a word to a command.
C38_EnvPrefixOnlyAssigns ==
  (last.handled /\ out.child.spawned /\ out.isWrapper /\ out.envVars # <<>>)
  => LET inner == ShellRuns(out.commandString)
     IN ShellRuns(SpawnedScript) = [inner EXCEPT ![1].assign = out.envVars \o @]

\* C40: a read_file_chunk call that returns data has read a file inside
\* $HOME/.shemcp/tmp/, whatever "." and ".." segments its uri has after
\* mcp://tmp/.
C40_ReadsOnlySpillDirectory ==
  (session.tool = "read_file_chunk" /\ ~reply.isError)
  => StartsWith(filePath(session.read.uri).dir, TmpDir)

(* the stdout bytes counted in the total_bytes of the reply               *)
CountedStdout == reply.total_bytes - SumSeq(session.prog.stderrChunks)

Spawned == session.tool = "shell_exec" /\ last.handled /\ out.child.spawned

MemoryCap == Max(2 * LimitBytes(session.exec.page), out.child.maxBytes)

(* the state of the stdout, stderr handler after the first k data events  *)
StdoutAfter(k) ==
  StdoutLoop(SubSeq(session.prog.chunks, 1, k), [total |-> 0, buffer |-> <<>>],
             LimitBytes(session.exec.page), out.child.maxBytes)

StderrAfter(k) ==
  StderrLoop(SubSeq(session.prog.stderrChunks, 1, k), [total |-> 0, buffer |-> <<>>],
             LimitBytes(session.exec.page), out.child.maxBytes)

(* buf is the last bytes of a stream of total bytes, at least limit of    *)
(* them or all there are                                                   *)
IsTail(buf, total, limit) ==
  IF total = 0 THEN buf = <<>>
  ELSE \E lo \in {IF buf = <<>> THEN total ELSE buf[1].lo} :
         /\ buf = <<Seg(lo, total)>>
         /\ total - lo >= Min(limit, total)

\* C35: after every data event the in-memory buffer of a stream is a
\* contiguous tail of the bytes emitted so far and holds at least limit_bytes
\* of the most recent bytes (all of them while there are fewer).
C35_BufferIsTail ==
  Spawned
  => /\ \A k \in 0..Len(session.prog.chunks) :
          IsTail(StdoutAfter(k).buffer, StdoutAfter(k).total,
                 LimitBytes(session.exec.page))
     /\ \A k \in 0..Len(session.prog.stderrChunks) :
          IsTail(StderrAfter(k).buffer, StderrAfter(k).total,
                 LimitBytes(session.exec.page))

\* C36: after every data event the in-memory buffer of a stream holds at
\* most max(2 x limit_bytes, effective max_output_bytes) bytes, while the
\* byte counter counts every byte emitted.
C36_BufferWithinCap ==
  Spawned
  => /\ \A k \in 0..Len(session.prog.chunks) :
          /\ BufLength(StdoutAfter(k).buffer) <= MemoryCap
          /\ StdoutAfter(k).total = SumSeq(SubSeq(session.prog.chunks, 1, k))
     /\ \A k \in 0..Len(session.prog.stderrChunks) :
          /\ BufLength(StderrAfter(k).buffer) <= MemoryCap
          /\ StderrAfter(k).total = SumSeq(SubSeq(session.prog.stderrChunks, 1, k))

\* C39: the result of an execution reflects every byte the child wrote:
\* total_bytes counts all of its stdout and stderr, and next_cursor is
\* present in spill mode exactly when stdout bytes remain after the page.
C39_ResultReflectsEveryByte ==
  ExecReplied
  => /\ reply.total_bytes = TotalStdout + SumSeq(session.prog.stderrChunks)
     /\ (session.exec.on_large_output = "spill" /\ ~reply.next_cursor.present)
         => reply.bytes_end >= TotalStdout

(* the cached worktree list is less than the TTL old                       *)
CacheFresh ==
  /\ globalWorktreeCache.valid
  /\ globalWorktreeCache.sandboxRoot = policy.rootDirectory
  /\ now - globalWorktreeCache.timestamp < CACHE_TTL_MS

(* the validation of dir needs the worktree list: worktree detection is   *)
(* on, and dir is outside the sandbox root and the allowlisted worktrees  *)
(* and inside a directory named like a worktree of the root               *)
ConsultsWorktrees(dir) ==
  /\ policy.worktreeDetectionEnabled
  /\ ~WithinLexical(dir, policy.rootDirectory)
  /\ ~isWithinAllowedWorktrees(dir, policy.allowedWorktrees)
  /\ FindPatternRoot(dir, policy.rootDirectory).found

\* C37: a worktree list obtained at time t, the empty list of a failed git
\* included, is reused without invoking git by every cwd validation before
\* t + 60 s; the first validation that needs the list at or after t + 60 s
\* invokes git again, and every invocation replaces the cached list with
\* what git reports then, stamped with the current time.
C37_WorktreeCacheTtl ==
  [][(last' # last /\ last'.handled /\ last'.out.cwdChecked)
     => /\ CacheFresh
           => /\ ~last'.out.cwd.gitInvoked
              /\ globalWorktreeCache' = globalWorktreeCache
        /\ (~CacheFresh /\ ConsultsWorktrees(last'.out.resolvedCwd))
           => last'.out.cwd.gitInvoked
        /\ last'.out.cwd.gitInvoked
           => globalWorktreeCache'
                = [valid |-> TRUE,
                   worktrees |-> fetchWorktreeList(policy.rootDirectory, git),
                   timestamp |-> now, sandboxRoot |-> policy.rootDirectory]
        /\ ~last'.out.cwd.gitInvoked => globalWorktreeCache' = globalWorktreeCache]_vars

C37_Witness ==
  /\ now = CACHE_TTL_MS
  /\ globalWorktreeCache.valid /\ globalWorktreeCache.timestamp = CACHE_TTL_MS
  /\ last.handled /\ last.out.cwd.gitInvoked /\ last.out.cwd.inserted.found
  /\ Cardinality(policy.allowedWorktrees) >= 2

====
